---- MODULE Spec2Model ----
(***************************************************************************)
(* The kitchen scheduler of the universe crate (agents/kitchen_next.rs):   *)
(* the orders and order_lines tables of KitchenHandler, the routing of new *)
(* lines to kitchens, the binding of lines to stations and the advancing   *)
(* of finished steps, driven by the simulation clock.                      *)
(*                                                                         *)
(* Identifiers are natural numbers whose numeric order stands for the byte *)
(* order of the 16-byte ids; 0 stands for a null id.  Timestamps are whole *)
(* seconds; -1 stands for a null timestamp.                                *)
(***************************************************************************)
EXTENDS Integers, Sequences, FiniteSets, TLC

\* ------------------------------------------------------------------------
\* Bounds of the exploration
\* ------------------------------------------------------------------------
MaxTime == 3
MaxOrders == 2
MaxLines == 2
MaxBatch == 2
MaxRoutedLines == 3
MaxReady == 3
MaxCouriers == 2
MaxCalls == 4

\* a journey has at most MaxLegs legs of at most MaxLegDistance metres, and
\* one call of Journey::advance gets at most MaxTimeStep time units
MaxLegs == 3

MaxLegDistance == 4

MaxTimeStep == 2

\* the State is stepped at most MaxMoves times
MaxMoves == 8

\* a kitchen has at most MaxQueued waiting lines and MaxQueued free stations
\* when prepare_steps is entered
MaxQueued == 12
MaxCustomers == 2

\* ------------------------------------------------------------------------
\* Null values and status names
\* ------------------------------------------------------------------------
NULL == 0
NullTime == 0 - 1

Submitted == "submitted"
Ready == "ready"

\* SimulationContext.time_step, in seconds (set with with_simulation_time_step)
TimeStep == 1

\* the iteration cap of prepare_steps
MaxIterations == 10

\* ------------------------------------------------------------------------
\* The immutable world held by KitchenHandler: sites, kitchens, stations
\* and menu items
\* ------------------------------------------------------------------------
Sites == {1, 2}

\* h3 cell (resolution 5) of a site; cell 0 holds no site
SiteCell(s) == s

Cells == {0, 1, 2}

Kitchens == {1, 2, 3}

\* site 1 has kitchen 1, site 2 has kitchens 2 and 3
KitchenSite(k) == IF k = 1 THEN 1 ELSE 2

Brands == {1, 2}

MenuItems == {1, 2, 3}

\* parent brand of a menu item
ItemBrand(m) == IF m = 3 THEN 2 ELSE m

\* extract_kitchen_station: every kitchen accepts the brands of all menu items
AcceptedBrands(k) == {ItemBrand(m) : m \in MenuItems}

Workstation == "workstation"
Oven == "oven"

Stations == {1, 2, 3, 4, 5}

\* kitchen 1 has two workstations and an oven, kitchens 2 and 3 have one
\* workstation each
StationKitchen(s) == IF s \in {1, 2, 3} THEN 1 ELSE IF s = 4 THEN 2 ELSE 3

StationType(s) == IF s = 3 THEN Oven ELSE Workstation

\* instructions of a menu item: (required_station, expected_duration in s)
Instructions(m) ==
    IF m = 1
    THEN << [required_station |-> Workstation, expected_duration |-> 2] >>
    ELSE IF m = 2
    THEN << [required_station |-> Workstation, expected_duration |-> 1],
            [required_station |-> Oven, expected_duration |-> 1] >>
    ELSE << [required_station |-> Oven, expected_duration |-> 1],
            [required_station |-> Oven, expected_duration |-> 1] >>

\* ------------------------------------------------------------------------
\* State
\* ------------------------------------------------------------------------
VARIABLES
    now,          \* SimulationContext.current_time
    orders,       \* KitchenHandler.orders: order_id -> row
    order_lines,  \* KitchenHandler.order_lines: order_line_id -> row
    last,         \* the handler operation called last
    population,   \* PopulationHandler.population: person_id -> row
    journeys,     \* PopulationHandler.journeys: person_id -> row
    picked_up_orders,  \* SimulationRunner::step: the result of assign_couriers
    incoming,     \* SimulationRunner::step: the result of create_orders
    events,       \* the event batch of the running or last tick
    pc,           \* SimulationRunner::step: the call made last
    calls,        \* the number of finished calls of the engine's step
    journey,      \* a Journey (state/movement.rs) and its transport
    elapsed,      \* the time step handed to the last call of Journey::advance
    positions,    \* the list the last call of Journey::advance returned
    trail,        \* the lists Journey::advance returned so far, concatenated
    before,       \* the tables of the handlers when a tick began, and the tick
    lookup_index, \* PopulationData.lookup_index: person_id -> PersonState
    emitted,      \* the payloads PopulationData::update_journeys returned so far
    returned,     \* the events the call of the kitchen handler made last returned
    ready_events, \* order_id -> the number of OrderReady events emitted for it
    loop,         \* KitchenHandler::prepare_steps: its counters and the line counts
    ordered       \* person_id -> the number of orders create_orders made for them

\* the state of the kitchen handler and the clock
kitchen_vars == << now, orders, order_lines, last >>

\* the state of the engines around the kitchen handler
runner_vars == << population, journeys, picked_up_orders, incoming, events, pc, calls >>

\* a single Journey and what its advance calls returned
movement_vars == << journey, elapsed, positions, trail >>

\* the people of the State (state/population.rs) and their payloads
legacy_vars == << lookup_index, emitted >>

\* what the calls of the kitchen handler returned, the loop of prepare_steps
\* and the orders of the customers
trace_vars == << returned, ready_events, loop, ordered >>

vars == << now, orders, order_lines, last, population, journeys,
           picked_up_orders, incoming, events, pc, calls,
           journey, elapsed, positions, trail, before, lookup_index, emitted,
           returned, ready_events, loop, ordered >>

\* ------------------------------------------------------------------------
\* Helpers
\* ------------------------------------------------------------------------
Range(f) == {f[x] : x \in DOMAIN f}

\* all orderings of a finite set, as sequences without repetition
Perms(S) ==
    {p \in [1..Cardinality(S) -> S] : \A i, j \in 1..Cardinality(S) : p[i] = p[j] => i = j}

Max2(a, b) == IF a >= b THEN a ELSE b

EmptyTable == [x \in {} |-> NULL]

\* an absent (None) and a present (Some) data frame of rows
None == [some |-> FALSE, rows |-> {}]

Some(rows) == [some |-> TRUE, rows |-> rows]

IsKitchen(g) == g # NULL

\* ------------------------------------------------------------------------
\* prepare_order_lines: orders to sites, orders to lines, lines to kitchens
\* ------------------------------------------------------------------------

\* left join of the orders with the sites on the h3 cell of the destination
SiteOfCell(cell) ==
    IF \E s \in Sites : SiteCell(s) = cell
    THEN CHOOSE s \in Sites : SiteCell(s) = cell
    ELSE NULL

\* unnest_orders_inner: one (order_id, menu_item_id) row per item, in order
RECURSIVE UnnestOrders(_, _)
UnnestOrders(batch, base) ==
    IF batch = << >>
    THEN << >>
    ELSE [i \in 1..Len(Head(batch).items) |->
              [order_id |-> base + 1, menu_item_id |-> Head(batch).items[i]]]
         \o UnnestOrders(Tail(batch), base + 1)

\* inner join of a line with the kitchens of its site that accept its brand
EligibleKitchens(site_id, menu_item_id) ==
    {k \in Kitchens : KitchenSite(k) = site_id
                      /\ ItemBrand(menu_item_id) \in AcceptedBrands(k)}

\* count(order_line_id) of the group of one kitchen_id (null included)
LineCount(ol, g) == Cardinality({l \in DOMAIN ol : ol[l].kitchen_id = g})

KitchenGroups(ol) == {ol[l].kitchen_id : l \in DOMAIN ol}

\* one batch of the kitchen_line_counts stream: the kitchen ids with the
\* nulls skipped are zipped with the counts of all rows
ZipCounts(rows, ol) ==
    LET ks == SelectSeq(rows, IsKitchen)
    IN  [k \in Range(ks) |->
            LineCount(ol, rows[CHOOSE i \in 1..Len(ks) : ks[i] = k])]

\* kitchen_stats before the first assignment.  The order of the rows of the
\* aggregate, and their split into batches, is up to the query engine.
KitchenStatsChoices(ol) ==
    LET real == KitchenGroups(ol) \ {NULL}
        exact == [k \in real |-> LineCount(ol, k)]
        fill(m) == [k \in Kitchens |-> IF k \in DOMAIN m THEN m[k] ELSE 0]
    IN  IF NULL \notin KitchenGroups(ol)
        THEN {fill(exact)}
        ELSE UNION {
               {fill([k \in real |->
                        IF k \in B THEN ZipCounts(rows, ol)[k] ELSE exact[k]])
                  : rows \in Perms(B \cup {NULL})}
               : B \in SUBSET real}

\* Iterator::min_by_key: the first element with the minimal key
MinByKey(cands, stats) ==
    cands[CHOOSE i \in 1..Len(cands) :
            \A j \in 1..Len(cands) :
                /\ stats[cands[j]] >= stats[cands[i]]
                /\ (j < i => stats[cands[j]] > stats[cands[i]])]

\* do_assign over the stream of (order_line_id, kitchen_ids) rows
RECURSIVE do_assign(_, _)
do_assign(todo, stats) ==
    IF todo = << >>
    THEN << >>
    ELSE LET k == MinByKey(Head(todo).candidates, stats)
         IN  << [line |-> Head(todo).line,
                 candidates |-> Head(todo).candidates,
                 kitchen |-> k] >>
             \o do_assign(Tail(todo), [stats EXCEPT ![k] = @ + 1])

CandidateOrders == UNION {Perms(S) : S \in SUBSET Kitchens}

NewLineRow(line, k) ==
    [order_id |-> line.order_id,
     menu_item_id |-> line.menu_item_id,
     kitchen_id |-> k,
     submitted_at |-> line.submitted_at,
     current_step |-> 1,
     total_steps |-> Len(Instructions(line.menu_item_id)),
     assigned_to |-> NULL,
     step_completion_time |-> NullTime,
     is_complete |-> FALSE]

\* assign_order_lines_to_kitchens: the possible results, each with the new
\* rows of order_lines
assign_order_lines_to_kitchens(lines, ol) ==
    LET elig(l) == EligibleKitchens(lines[l].site_id, lines[l].menu_item_id)
        matched == {l \in DOMAIN lines : elig(l) # {}}
    IN  IF matched = {}
        THEN {[rows |-> EmptyTable]}
        ELSE {LET log == do_assign([i \in 1..Len(ord) |->
                                       [line |-> ord[i], candidates |-> cand[ord[i]]]],
                                   stats)
                  kit(l) == log[CHOOSE i \in 1..Len(log) : log[i].line = l].kitchen
              IN  [rows |-> [l \in DOMAIN lines |->
                               NewLineRow(lines[l], IF l \in matched THEN kit(l) ELSE NULL)]]
              : stats \in KitchenStatsChoices(ol),
                ord \in Perms(matched),
                cand \in {c \in [matched -> CandidateOrders] :
                            \A l \in matched : c[l] \in Perms(elig(l))}}

\* number of lines of a kitchen that are not complete
Outstanding(ol, k) ==
    Cardinality({l \in DOMAIN ol : ol[l].kitchen_id = k /\ ~ol[l].is_complete})

\* prepare_order_lines: the possible (orders, order_lines) after the call
prepare_order_lines(batch) ==
    LET base == Cardinality(DOMAIN orders)
        new_orders == [o \in (base + 1)..(base + Len(batch)) |->
                          [site_id |-> SiteOfCell(batch[o - base].cell),
                           submitted_at |-> batch[o - base].submitted_at,
                           status |-> Submitted]]
        flat == UnnestOrders(batch, base)
        next_id == Cardinality(DOMAIN order_lines) + 1
        lines == [l \in next_id..(next_id + Len(flat) - 1) |->
                     [order_id |-> flat[l - next_id + 1].order_id,
                      menu_item_id |-> flat[l - next_id + 1].menu_item_id,
                      site_id |-> new_orders[flat[l - next_id + 1].order_id].site_id,
                      submitted_at |-> new_orders[flat[l - next_id + 1].order_id].submitted_at]]
        unchanged == [orders |-> orders, order_lines |-> order_lines]
    IN  IF Len(batch) = 0 \/ Len(flat) = 0
        THEN {unchanged}
        ELSE {[orders |-> new_orders @@ orders,
               order_lines |-> order_lines @@ a.rows]
              : a \in assign_order_lines_to_kitchens(lines, order_lines)}

\* ------------------------------------------------------------------------
\* process_order_lines: lines to stations (prepare_steps), then the
\* advancing of the finished steps
\* ------------------------------------------------------------------------

\* array_element(instructions, current_step): null beyond the last step
RequiredStation(row) ==
    IF row.current_step \in 1..Len(Instructions(row.menu_item_id))
    THEN Instructions(row.menu_item_id)[row.current_step].required_station
    ELSE "null"

ExpectedDuration(row) ==
    Instructions(row.menu_item_id)[row.current_step].expected_duration

\* round(expected_duration * (1 + random() - 0.3)^2) for random() in [0, 1):
\* the factor ranges over [0.49, 2.89)
DurationChoices(d) ==
    {n \in 0..(3 * d) : 100 * n + 50 > 49 * d /\ 100 * n - 50 < 289 * d}

\* the filter on is_complete alone, without the step_completion_time test
ToUpdate_all_incomplete(ol, t) ==
    {l \in DOMAIN ol : ~ol[l].is_complete}

\* the lines assign_steps_to_stations looks at
ToUpdate(ol, t) ==
    {l \in DOMAIN ol :
        /\ ~ol[l].is_complete
        /\ (ol[l].step_completion_time = NullTime \/ ol[l].step_completion_time <= t)}

\* available_stations without the anti join against order_lines.assigned_to
available_stations_no_anti_join(ol) == Stations

\* available_stations: the stations no order line refers to
available_stations(ol) ==
    {s \in Stations : \A l \in DOMAIN ol : ol[l].assigned_to # s}

\* the join on the kitchen alone, without station_type = required_station
StationCandidates_kitchen_only(s, ol, t) ==
    {l \in ToUpdate(ol, t) : ol[l].kitchen_id = StationKitchen(s)}

\* join of the lines to update with the available stations
StationCandidates(s, ol, t) ==
    {l \in ToUpdate(ol, t) :
        /\ ol[l].kitchen_id = StationKitchen(s)
        /\ RequiredStation(ol[l]) = StationType(s)}

\* first_value(order_line_id ORDER BY submitted_at DESC) of a station's
\* group: any of the rows with the greatest submitted_at
FirstValueChoices(s, ol, t) ==
    {l \in StationCandidates(s, ol, t) :
        \A l2 \in StationCandidates(s, ol, t) :
            ol[l2].submitted_at <= ol[l].submitted_at}

\* the join alone, without the two aggregates: every candidate line is given
\* one of the stations offered to it
StationAssignments_plain_join(ol, t) ==
    LET offered == {s \in available_stations(ol) : StationCandidates(s, ol, t) # {}}
        lines == UNION {StationCandidates(s, ol, t) : s \in offered}
    IN  {m \in [lines -> offered] : \A l \in lines : l \in StationCandidates(m[l], ol, t)}

\* the two aggregates: each station picks a line, each picked line keeps
\* one of the stations that picked it
StationAssignments(ol, t) ==
    LET offered == {s \in available_stations(ol) : StationCandidates(s, ol, t) # {}}
        picks == {p \in [offered -> DOMAIN ol] :
                    \A s \in offered : p[s] \in FirstValueChoices(s, ol, t)}
    IN  UNION {{m \in [Range(p) -> offered] : \A l \in Range(p) : p[m[l]] = l}
                 : p \in picks}

\* the completion time drawn for each freshly bound line
DurationDraws(ol, bound) ==
    {d \in [bound -> UNION {DurationChoices(ExpectedDuration(ol[l])) : l \in bound}] :
        \A l \in bound : d[l] \in DurationChoices(ExpectedDuration(ol[l]))}

\* assign_steps_to_stations: the possible order_lines after one pass
assign_steps_to_stations(ol, t) ==
    UNION {{[l \in DOMAIN ol |->
               IF l \in DOMAIN m
               THEN [ol[l] EXCEPT
                       !.assigned_to = m[l],
                       !.step_completion_time = Max2(t, ol[l].submitted_at) + d[l]]
               ELSE ol[l]]
             : d \in DurationDraws(ol, DOMAIN m)}
            : m \in StationAssignments(ol, t)}

\* get_stats whose queued counter leaves out the is_complete = false test
get_stats_queued_unfiltered(ol) ==
    [queued |-> Cardinality({l \in DOMAIN ol : ol[l].assigned_to = NULL}),
     in_progress |-> Cardinality({l \in DOMAIN ol : ol[l].assigned_to # NULL /\ ~ol[l].is_complete}),
     completed |-> Cardinality({l \in DOMAIN ol : ol[l].is_complete}),
     idle_stations |-> Cardinality(Stations),
     total_stations |-> Cardinality(Stations)]

\* get_stats: queued, in progress and completed lines
get_stats(ol) ==
    [queued |-> Cardinality({l \in DOMAIN ol : ol[l].assigned_to = NULL /\ ~ol[l].is_complete}),
     in_progress |-> Cardinality({l \in DOMAIN ol : ol[l].assigned_to # NULL /\ ~ol[l].is_complete}),
     completed |-> Cardinality({l \in DOMAIN ol : ol[l].is_complete}),
     idle_stations |-> Cardinality(Stations),
     total_stations |-> Cardinality(Stations)]

\* station_updates of one pass from ol to ol1: the lines given a station.  A
\* station that is offered is referred to by no line, so the station of a
\* line that is given one always changes.
StationUpdates(ol, ol1) ==
    {l \in DOMAIN ol : ol1[l].assigned_to # ol[l].assigned_to}

\* step_started_events of one pass: a row per row of station_updates, joined
\* with the order_lines of before the write
step_started_events(ol, ol1, t) ==
    {[type |-> "step_started",
      timestamp |-> t,
      order_line_id |-> l,
      step_index |-> ol[l].current_step,
      station_id |-> ol1[l].assigned_to] : l \in StationUpdates(ol, ol1)}

\* the loop of prepare_steps: passes until the stats stop changing or the
\* cap is hit; steps is the number of passes that changed the stats so far,
\* evs the events of those passes.  The events of a pass that leaves the
\* stats as they were are dropped, the lines it wrote are kept.
RECURSIVE prepare_steps_loop(_, _, _, _)
prepare_steps_loop(ol, t, steps, evs) ==
    UNION {IF get_stats(ol1) = get_stats(ol)
           THEN {[order_lines |-> ol1, events |-> evs]}
           ELSE IF steps + 1 > MaxIterations
           THEN {[order_lines |-> ol1,
                  events |-> step_started_events(ol, ol1, t) \cup evs]}
           ELSE prepare_steps_loop(ol1, t, steps + 1,
                                   step_started_events(ol, ol1, t) \cup evs)
             : ol1 \in assign_steps_to_stations(ol, t)}

\* prepare_steps: the possible order_lines after the call
prepare_steps(ol, t, steps) ==
    {r.order_lines : r \in prepare_steps_loop(ol, t, steps, {})}

LinesToAdvance(ol, t) ==
    {l \in DOMAIN ol :
        /\ ~ol[l].is_complete
        /\ ol[l].step_completion_time # NullTime
        /\ ol[l].step_completion_time <= t}

\* the advancing without the final recomputation of is_complete
AdvanceLines_stale_flag(ol, t) ==
    [l \in DOMAIN ol |->
        IF l \in LinesToAdvance(ol, t)
        THEN [ol[l] EXCEPT !.current_step = @ + 1,
                           !.assigned_to = NULL,
                           !.step_completion_time = NullTime]
        ELSE ol[l]]

\* an advancing that sends a line that finishes its last step back to step 1
AdvanceLines_restarts(ol, t) ==
    LET adv == [l \in DOMAIN ol |->
                  IF l \in LinesToAdvance(ol, t)
                  THEN [ol[l] EXCEPT !.current_step =
                                         IF @ + 1 > ol[l].total_steps THEN 1 ELSE @ + 1,
                                     !.assigned_to = NULL,
                                     !.step_completion_time = NullTime]
                  ELSE ol[l]]
    IN  [l \in DOMAIN ol |->
           [adv[l] EXCEPT !.is_complete = adv[l].current_step > adv[l].total_steps]]

\* the second half of process_order_lines
AdvanceLines(ol, t) ==
    LET adv == [l \in DOMAIN ol |->
                  IF l \in LinesToAdvance(ol, t)
                  THEN [ol[l] EXCEPT !.current_step = @ + 1,
                                     !.assigned_to = NULL,
                                     !.step_completion_time = NullTime]
                  ELSE ol[l]]
    IN  [l \in DOMAIN ol |->
           [adv[l] EXCEPT !.is_complete = adv[l].current_step > adv[l].total_steps]]

process_order_lines(ol, t) ==
    IF DOMAIN ol = {}
    THEN {ol}
    ELSE {AdvanceLines(a, t) : a \in prepare_steps(ol, t, 0)}

\* the orders with lines that are all complete, whatever their status
CompletedOrders_any_status(ord, ol) ==
    {o \in DOMAIN ord :
        /\ \E l \in DOMAIN ol : ol[l].order_id = o
        /\ \A l \in DOMAIN ol : ol[l].order_id = o => ol[l].is_complete}

\* update_order_status: submitted orders with lines that are all complete
CompletedOrders(ord, ol) ==
    {o \in DOMAIN ord :
        /\ ord[o].status = Submitted
        /\ \E l \in DOMAIN ol : ol[l].order_id = o
        /\ \A l \in DOMAIN ol : ol[l].order_id = o => ol[l].is_complete}

update_order_status(ord, ol) ==
    [o \in DOMAIN ord |->
        IF o \in CompletedOrders(ord, ol)
        THEN [ord[o] EXCEPT !.status = Ready]
        ELSE ord[o]]

\* ------------------------------------------------------------------------
\* Inputs: batches of incoming orders
\* ------------------------------------------------------------------------
\* the menu items the customers of the kitchen runs order
OrderedItems == {1, 2}

ItemLists(n) == UNION {[1..i -> OrderedItems] : i \in 1..n}

IncomingOrders(n) ==
    [cell : Cells, submitted_at : now..(now + TimeStep), items : ItemLists(n)]

RECURSIVE ItemCount(_)
ItemCount(batch) ==
    IF batch = << >> THEN 0 ELSE Len(Head(batch).items) + ItemCount(Tail(batch))

Min2(a, b) == IF a <= b THEN a ELSE b

\* the batches that keep the tables within MaxOrders and MaxLines
Batches ==
    LET room == MaxLines - Cardinality(DOMAIN order_lines)
    IN  {b \in UNION {[1..n -> IncomingOrders(room)] :
                        n \in 1..Min2(MaxBatch, MaxOrders - Cardinality(DOMAIN orders))} :
           ItemCount(b) <= room}

\* ------------------------------------------------------------------------
\* Journey (state/movement.rs)
\* ------------------------------------------------------------------------
\* Lengths are whole metres and a time step is a whole number of time units.
\* current_leg_progress holds the metres covered of the current leg, which is
\* the code's fraction times the distance_m of the leg; the fraction of a leg
\* of distance 0 stays 0. The arithmetic is exact.
Foot == "Foot"

Bicycle == "Bicycle"

Transports == {Foot, Bicycle}

\* Transport::default
DefaultTransport == Bicycle

\* Transport::default_velocity_m_s, in metres per time unit: the 5 km/h on
\* foot are one metre per time unit, the 15 km/h of a bicycle are three
default_velocity_m_s(transport) == IF transport = Foot THEN 1 ELSE 3

\* a position on the polyline: the point `at` metres into leg `leg`
PointOnLeg(leg, at) == [leg |-> leg, at |-> at]

\* the legs of a polyline with the given leg distances; the destination of
\* a leg is the point at its end
LegsOf(distances) ==
    [i \in DOMAIN distances |->
        [destination |-> PointOnLeg(i, distances[i]), distance_m |-> distances[i]]]

\* Journey::from_iter and the struct literal the tests build: a journey at
\* its start
NewJourney(transport, distances) ==
    [transport |-> transport,
     legs |-> LegsOf(distances),
     current_leg_index |-> 0,
     current_leg_progress |-> 0]

\* Journey::default
DefaultJourney == NewJourney(DefaultTransport, << >>)

NoJourney ==
    /\ journey = DefaultJourney
    /\ elapsed = 0
    /\ positions = << >>
    /\ trail = << >>

\* no people in the State and no payload yet
NoPeople ==
    /\ lookup_index = EmptyTable
    /\ emitted = << >>

\* no tick has been marked yet
NoMark ==
    [calls |-> 0 - 1,
     world |-> [orders |-> EmptyTable, order_lines |-> EmptyTable,
                population |-> EmptyTable, journeys |-> {}]]

\* prepare_steps is not running
NoLoop ==
    [running |-> FALSE, queued |-> 0, in_progress |-> 0, idle |-> 0,
     curr_stats |-> [queued |-> 0, in_progress |-> 0], steps |-> 0, passes |-> 0]

\* no call has returned events, no loop runs and no customer has ordered
NoTrace ==
    /\ returned = {}
    /\ ready_events = EmptyTable
    /\ loop = NoLoop
    /\ ordered = EmptyTable

is_done(j) == j.current_leg_index >= Len(j.legs)

\* Journey::reset_reverse
reset_reverse(j) ==
    [j EXCEPT !.legs = [i \in DOMAIN j.legs |-> j.legs[Len(j.legs) + 1 - i]],
              !.current_leg_index = 0,
              !.current_leg_progress = 0]

\* the branch of the loop of Journey::advance that leaves the current leg
\* behind, without the reset of current_leg_progress
FinishLeg_keeps_progress(j) ==
    [j EXCEPT !.current_leg_index = @ + 1]

\* the branch of the loop of Journey::advance that leaves the current leg
\* behind
FinishLeg(j) ==
    [j EXCEPT !.current_leg_index = @ + 1,
              !.current_leg_progress = 0]

\* what is left of the step after a finished leg, dropped
Remainder_discarded(distance_remaining, leg_distance_remaining) == 0

\* what is left of the step after a finished leg
Remainder(distance_remaining, leg_distance_remaining) ==
    distance_remaining - leg_distance_remaining

\* the loop of Journey::advance
RECURSIVE AdvanceLoop(_, _, _)
AdvanceLoop(j, distance_remaining, traversed_points) ==
    IF ~(distance_remaining > 0 /\ ~is_done(j))
    THEN [journey |-> j, traversed_points |-> traversed_points]
    ELSE LET current_leg == j.legs[j.current_leg_index + 1]
             leg_distance_remaining ==
                 current_leg.distance_m - j.current_leg_progress
         IN  IF leg_distance_remaining <= distance_remaining
             THEN AdvanceLoop(FinishLeg(j),
                              Remainder(distance_remaining, leg_distance_remaining),
                              Append(traversed_points, current_leg.destination))
             ELSE [journey |->
                       [j EXCEPT !.current_leg_progress = @ + distance_remaining],
                   traversed_points |->
                       Append(traversed_points,
                              IF traversed_points # << >>
                              THEN PointOnLeg(j.current_leg_index + 1,
                                              distance_remaining)
                              ELSE current_leg.destination)]

RECURSIVE SumDistances(_, _)
SumDistances(legs, n) ==
    IF n = 0 THEN 0 ELSE legs[n].distance_m + SumDistances(legs, n - 1)

total_distance_m(j) == SumDistances(j.legs, Len(j.legs))

\* Journey::advance with a journey of total distance 0 treated as one that
\* is done
advance_skips_zero_total(j, time_step) ==
    IF is_done(j) \/ total_distance_m(j) = 0
    THEN [journey |-> j, traversed_points |-> << >>]
    ELSE AdvanceLoop(j, default_velocity_m_s(j.transport) * time_step, << >>)

\* Journey::advance: the journey after the call and the list it returns
advance(j, time_step) ==
    IF is_done(j)
    THEN [journey |-> j, traversed_points |-> << >>]
    ELSE AdvanceLoop(j, default_velocity_m_s(j.transport) * time_step, << >>)

distance_completed_m(j) ==
    IF is_done(j)
    THEN total_distance_m(j)
    ELSE SumDistances(j.legs, j.current_leg_index) + j.current_leg_progress

distance_remaining_m(j) == total_distance_m(j) - distance_completed_m(j)

\* completed over total distance without the case of a total distance of 0
progress_percentage_unguarded(j) ==
    [num |-> distance_completed_m(j), den |-> total_distance_m(j)]

\* Journey::progress_percentage, as the fraction num / den
progress_percentage(j) ==
    IF total_distance_m(j) = 0
    THEN [num |-> 1, den |-> 1]
    ELSE [num |-> distance_completed_m(j), den |-> total_distance_m(j)]

\* Journey::estimated_time_remaining_s, as the fraction num / den
estimated_time_remaining_s(j) ==
    [num |-> distance_remaining_m(j), den |-> default_velocity_m_s(j.transport)]

\* ------------------------------------------------------------------------
\* Specification
\* ------------------------------------------------------------------------
\* KitchenHandler::try_new at the start time
KitchenInit ==
    /\ now = 0
    /\ orders = EmptyTable
    /\ order_lines = EmptyTable
    /\ last = "new"

\* the kitchen handler on its own, with no population and no engine
Init ==
    /\ KitchenInit
    /\ population = EmptyTable
    /\ journeys = {}
    /\ NoJourney
    /\ NoPeople
    /\ before = NoMark
    /\ NoTrace
    /\ picked_up_orders = None
    /\ incoming = << >>
    /\ events = {}
    /\ pc = "idle"
    /\ calls = 0

PrepareFrom(batches) ==
    \E batch \in batches :
      \E r \in prepare_order_lines(batch) :
        /\ orders' = r.orders
        /\ order_lines' = r.order_lines
        /\ last' = "prepare_order_lines"
        /\ now' = now
        /\ UNCHANGED << runner_vars, movement_vars, legacy_vars, before, trace_vars >>

PrepareOrderLines == PrepareFrom(Batches)

StepTime ==
    /\ now + TimeStep <= MaxTime
    /\ now' = now + TimeStep
    /\ last' = "step_time"
    /\ UNCHANGED << orders, order_lines >>
    /\ UNCHANGED << runner_vars, movement_vars, legacy_vars, before, trace_vars >>

ProcessOrderLines ==
    /\ \E ol \in process_order_lines(order_lines, now) : order_lines' = ol
    /\ last' = "process_order_lines"
    /\ UNCHANGED << now, orders >>
    /\ UNCHANGED << runner_vars, movement_vars, legacy_vars, before, trace_vars >>

UpdateOrderStatus ==
    /\ orders' = update_order_status(orders, order_lines)
    /\ last' = "update_order_status"
    /\ UNCHANGED << now, order_lines >>
    /\ UNCHANGED << runner_vars, movement_vars, legacy_vars, before, trace_vars >>

\* KitchenHandler::step with incoming orders
StepWithOrders ==
    \E batch \in Batches :
      \E r \in prepare_order_lines(batch) :
        \E ol \in process_order_lines(r.order_lines, now) :
          /\ order_lines' = ol
          /\ orders' = update_order_status(r.orders, ol)
          /\ last' = "step"
          /\ now' = now
          /\ UNCHANGED << runner_vars, movement_vars, legacy_vars, before, trace_vars >>

\* KitchenHandler::step without incoming orders
StepNoOrders ==
    \E ol \in process_order_lines(order_lines, now) :
      /\ order_lines' = ol
      /\ orders' = update_order_status(orders, ol)
      /\ last' = "step"
      /\ UNCHANGED now
      /\ UNCHANGED << runner_vars, movement_vars, legacy_vars, before, trace_vars >>

Next ==
    \/ PrepareOrderLines
    \/ ProcessOrderLines
    \/ UpdateOrderStatus
    \/ StepTime

Spec == Init /\ [][Next]_vars

\* the tick driver: KitchenHandler::step once per tick
RunNext ==
    \/ StepWithOrders
    \/ StepNoOrders
    \/ StepTime

RunSpec == Init /\ [][RunNext]_vars

\* the routing of lines to kitchens on its own: orders of one item, placed
\* at the tick time and destined to the site that has two kitchens
RoutingBatches ==
    LET room == MaxRoutedLines - Cardinality(DOMAIN orders)
    IN  UNION {[1..n -> [cell : {SiteCell(2)}, submitted_at : {now},
                         items : [1..1 -> OrderedItems]]]
                 : n \in 1..Min2(MaxBatch, room)}

RoutePrepare == PrepareFrom(RoutingBatches)

RoutingNext ==
    \/ RoutePrepare
    \/ ProcessOrderLines
    \/ StepTime

RoutingSpec == Init /\ [][RoutingNext]_vars

\* ------------------------------------------------------------------------
\* The runner under fairness: every tick calls KitchenHandler::step and then
\* step_time.  Timestamps are kept relative to the tick time: step_time
\* moves every stored timestamp one TimeStep into the past and now stays 0.
\* A timestamp that is already past stays at 0, which compares with now and
\* enters max(now, submitted_at) exactly as the past value does.  One order
\* arrives, so all lines share one submitted_at.
\* ------------------------------------------------------------------------
Rebase(t) == IF t = NullTime THEN NullTime ELSE Max2(t - TimeStep, 0)

RebaseOrders(ord) ==
    [o \in DOMAIN ord |-> [ord[o] EXCEPT !.submitted_at = Rebase(@)]]

RebaseLines(ol) ==
    [l \in DOMAIN ol |->
        [ol[l] EXCEPT !.submitted_at = Rebase(@),
                      !.step_completion_time = Rebase(@)]]

LiveBatches == {<< o >> : o \in IncomingOrders(MaxLines)}

\* the tick in which the order arrives
TickWithOrders ==
    /\ orders = EmptyTable
    /\ \E batch \in LiveBatches :
         \E r \in prepare_order_lines(batch) :
           \E ol \in process_order_lines(r.order_lines, now) :
             /\ order_lines' = RebaseLines(ol)
             /\ orders' = RebaseOrders(update_order_status(r.orders, ol))
    /\ last' = "tick"
    /\ now' = now
    /\ UNCHANGED << runner_vars, movement_vars, legacy_vars, before, trace_vars >>

\* a tick without incoming orders
Tick ==
    /\ \E ol \in process_order_lines(order_lines, now) :
         /\ order_lines' = RebaseLines(ol)
         /\ orders' = RebaseOrders(update_order_status(orders, ol))
    /\ last' = "tick"
    /\ now' = now
    /\ UNCHANGED << runner_vars, movement_vars, legacy_vars, before, trace_vars >>

LiveNext ==
    \/ TickWithOrders
    \/ Tick

LiveSpec == Init /\ [][LiveNext]_vars /\ WF_vars(Tick)

\* ------------------------------------------------------------------------
\* SimulationRunner (simulation/next.rs): couriers, journeys and the tick
\* ------------------------------------------------------------------------
PickedUp == "picked_up"

Courier == "courier"
Idle == "idle"
Delivering == "delivering"

\* h3 cell (resolution 9) of the position of a site
SiteTile(s) == s

\* the h3 cells (resolution 9) couriers stand in
Tiles == {1, 2}

\* KitchenHandler::ready_orders: None while the orders table is empty, else
\* the orders in status Ready
ready_orders(ord) ==
    IF DOMAIN ord = {}
    THEN None
    ELSE Some({o \in DOMAIN ord : ord[o].status = Ready})

\* the sort by (location asc, submitted_at asc): every ordering of the rows
\* that respects the two keys
SortedForPickup(ord, rows) ==
    {q \in Perms(rows) :
        \A i, j \in 1..Len(q) :
            i < j =>
               \/ SiteTile(ord[q[i]].site_id) < SiteTile(ord[q[j]].site_id)
               \/ /\ SiteTile(ord[q[i]].site_id) = SiteTile(ord[q[j]].site_id)
                  /\ ord[q[i]].submitted_at <= ord[q[j]].submitted_at}

\* the idle couriers that stand in a tile
IdleCouriers(pop, tile) ==
    {p \in DOMAIN pop :
        pop[p].role = Courier /\ pop[p].status = Idle /\ pop[p].tile = tile}

\* array_agg(person_id) per location: the couriers of each tile in any order
CourierArrays(pop, tiles) ==
    {c \in [tiles -> UNION {Perms(IdleCouriers(pop, t)) : t \in tiles}] :
        \A t \in tiles : c[t] \in Perms(IdleCouriers(pop, t))}

\* SimulationRunner::assign_couriers: driver_queue_pos is the row number in
\* the whole sorted frame; a row is kept when its number does not exceed the
\* length of the courier array of its tile and takes the courier at that index
assign_couriers(ord, pop) ==
    IF ~ready_orders(ord).some \/ ready_orders(ord).rows = {}
    THEN {None}
    ELSE LET ready == ready_orders(ord).rows
             locations == {SiteTile(ord[o].site_id) : o \in ready}
         IN  {Some({[site_id |-> ord[q[i]].site_id,
                     order_id |-> q[i],
                     assigned_courier |-> c[SiteTile(ord[q[i]].site_id)][i]]
                      : i \in {n \in 1..Len(q) :
                                  n <= Len(c[SiteTile(ord[q[n]].site_id)])}})
                : q \in SortedForPickup(ord, ready),
                  c \in CourierArrays(pop, locations)}

AssignCouriers ==
    /\ pc = "advance_journeys"
    /\ picked_up_orders' \in assign_couriers(orders, population)
    /\ pc' = "assign_couriers"
    /\ UNCHANGED << population, journeys, incoming, events, calls >>
    /\ UNCHANGED << kitchen_vars, movement_vars, legacy_vars, before, trace_vars >>

\* PopulationHandler::set_person_status
set_person_status(pop, person_ids, status) ==
    [p \in DOMAIN pop |->
        IF p \in person_ids THEN [pop[p] EXCEPT !.status = status] ELSE pop[p]]

\* MovementHandler::plan_journeys: the construction of the journeys is
\* commented out and the function ends in Ok(vec![])
plan_journeys(journey_data) == {}

\* PopulationHandler::start_journeys: a row per new journey, at its start
\* and complete when it has no legs; the table is written only when there
\* are new rows
start_journeys(j, new_journeys) ==
    IF new_journeys = {}
    THEN j
    ELSE j \cup {[person_id |-> n.person_id,
                  journey_legs |-> n.journey.legs,
                  current_leg_index |-> 0,
                  current_leg_progress |-> 0,
                  is_complete |-> n.journey.legs = << >>] : n \in new_journeys}

\* PopulationHandler::advance_journeys: the metres of one tick, at the
\* velocity of Transport::default()
distance_to_travel == default_velocity_m_s(DefaultTransport) * TimeStep

\* the row of an active journey after a tick in which the progress within a
\* leg that is not finished stays as it was
AdvanceJourney_no_progress(row) ==
    LET current_leg == row.journey_legs[row.current_leg_index + 1]
        remaining_in_leg == current_leg.distance_m - row.current_leg_progress
        completes_leg == distance_to_travel >= remaining_in_leg
        new_leg_index == IF completes_leg
                         THEN row.current_leg_index + 1
                         ELSE row.current_leg_index
    IN  [row EXCEPT !.current_leg_index = new_leg_index,
                    !.current_leg_progress = IF completes_leg THEN 0 ELSE @,
                    !.is_complete = new_leg_index >= Len(row.journey_legs)]

\* PopulationHandler::advance_journeys, the row of an active journey after
\* the tick; current_leg_progress is in metres, as in a Journey
AdvanceJourney(row) ==
    LET current_leg == row.journey_legs[row.current_leg_index + 1]
        remaining_in_leg == current_leg.distance_m - row.current_leg_progress
        completes_leg == distance_to_travel >= remaining_in_leg
        new_leg_index == IF completes_leg
                         THEN row.current_leg_index + 1
                         ELSE row.current_leg_index
    IN  [row EXCEPT !.current_leg_index = new_leg_index,
                    !.current_leg_progress =
                        IF completes_leg THEN 0 ELSE @ + distance_to_travel,
                    !.is_complete = new_leg_index >= Len(row.journey_legs)]

\* a tick that goes on into the next leg of a journey that is still active
\* after its first leg of the tick
advance_journeys_second_leg(j) ==
    IF j = {}
    THEN j
    ELSE {IF AdvanceJourney(row).is_complete
          THEN AdvanceJourney(row)
          ELSE AdvanceJourney(AdvanceJourney(row)) : row \in {r \in j : ~r.is_complete}}
            \cup {r \in j : r.is_complete}

advance_journeys(j) ==
    IF j = {}
    THEN j
    ELSE {AdvanceJourney(row) : row \in {r \in j : ~r.is_complete}}
            \cup {r \in j : r.is_complete}

\* PopulationHandler::create_orders as the runner sees it: no order, or one
\* order of one item placed in the cell of a site, submitted within the tick
RunnerBatches ==
    {<< >>} \cup
    (IF Cardinality(DOMAIN orders) < MaxOrders
          /\ Cardinality(DOMAIN order_lines) < MaxLines
     THEN {<< o >> : o \in [cell : {SiteCell(st) : st \in Sites},
                           submitted_at : now..(now + TimeStep),
                           items : [1..1 -> {1}]]}
     ELSE {})

\* the events of one KitchenHandler::step: orders before the call, orders
\* stored by prepare_order_lines (r), the events prepare_steps returned
\* (started), lines after prepare_steps (a) and after the advancing (ol)
KitchenEvents(ord, r, started, a, ol, t) ==
    {[type |-> "order_created", timestamp |-> r.orders[o].submitted_at, subject |-> o]
        : o \in DOMAIN r.orders \ DOMAIN ord}
    \cup {[type |-> "step_started", timestamp |-> e.timestamp, subject |-> e.order_line_id]
            : e \in started}
    \cup {[type |-> "step_finished", timestamp |-> a[l].step_completion_time, subject |-> l]
            : l \in {x \in LinesToAdvance(a, t) :
                        a[x].current_step > 1 /\ a[x].current_step + 1 <= a[x].total_steps}}
    \cup {[type |-> "order_line_ready", timestamp |-> a[l].step_completion_time, subject |-> l]
            : l \in {x \in LinesToAdvance(a, t) : a[x].current_step + 1 > a[x].total_steps}}
    \cup {[type |-> "order_ready", timestamp |-> t, subject |-> o]
            : o \in CompletedOrders(r.orders, ol)}

\* the calls SimulationRunner::step makes, one action per call
AdvanceJourneys ==
    /\ pc = "idle"
    /\ calls < MaxCalls
    /\ journeys' = advance_journeys(journeys)
    /\ events' = {}
    /\ pc' = "advance_journeys"
    /\ UNCHANGED << population, picked_up_orders, incoming, calls >>
    /\ UNCHANGED << kitchen_vars, movement_vars, legacy_vars, before, trace_vars >>

SetPersonStatus ==
    /\ pc = "assign_couriers"
    /\ picked_up_orders.some
    /\ population' = set_person_status(population,
                        {r.assigned_courier : r \in picked_up_orders.rows}, Delivering)
    /\ pc' = "set_person_status"
    /\ UNCHANGED << journeys, picked_up_orders, incoming, events, calls >>
    /\ UNCHANGED << kitchen_vars, movement_vars, legacy_vars, before, trace_vars >>

PlanJourneys ==
    /\ pc = "set_person_status"
    /\ pc' = "plan_journeys"
    /\ UNCHANGED << population, journeys, picked_up_orders, incoming, events, calls >>
    /\ UNCHANGED << kitchen_vars, movement_vars, legacy_vars, before, trace_vars >>

\* start_journeys with the planned journeys, then the order_picked_up events
StartJourneys ==
    /\ pc = "plan_journeys"
    /\ journeys' = start_journeys(journeys, plan_journeys(picked_up_orders.rows))
    /\ events' = events \cup
                   {[type |-> "order_picked_up", timestamp |-> now, subject |-> r.order_id]
                      : r \in picked_up_orders.rows}
    /\ pc' = "start_journeys"
    /\ UNCHANGED << population, picked_up_orders, incoming, calls >>
    /\ UNCHANGED << kitchen_vars, movement_vars, legacy_vars, before, trace_vars >>

CreateOrders ==
    /\ \/ pc = "start_journeys"
       \/ pc = "assign_couriers" /\ ~picked_up_orders.some
    /\ incoming' \in RunnerBatches
    /\ pc' = "create_orders"
    /\ UNCHANGED << population, journeys, picked_up_orders, events, calls >>
    /\ UNCHANGED << kitchen_vars, movement_vars, legacy_vars, before, trace_vars >>

\* KitchenHandler::step with the created orders, and the union of its events
KitchenStep ==
    /\ pc = "create_orders"
    /\ \E r \in prepare_order_lines(incoming) :
         \E pa \in (IF DOMAIN r.order_lines = {}
                    THEN {[order_lines |-> r.order_lines, events |-> {}]}
                    ELSE prepare_steps_loop(r.order_lines, now, 0, {})) :
           LET a == pa.order_lines
               ol == IF DOMAIN a = {} THEN a ELSE AdvanceLines(a, now)
           IN  /\ order_lines' = ol
               /\ orders' = update_order_status(r.orders, ol)
               /\ events' = events \cup KitchenEvents(orders, r, pa.events, a, ol, now)
    /\ last' = "step"
    /\ pc' = "kitchen_step"
    /\ UNCHANGED << now, population, journeys, picked_up_orders, incoming, calls >>
    /\ UNCHANGED << movement_vars, legacy_vars, before, trace_vars >>

\* a clock step of twice the time step
StepClock_two_steps ==
    /\ pc = "kitchen_step"
    /\ now' = now + TimeStep + TimeStep
    /\ pc' = "step_time"
    /\ UNCHANGED << orders, order_lines, last >>
    /\ UNCHANGED << population, journeys, picked_up_orders, incoming, events, calls >>
    /\ UNCHANGED << movement_vars, legacy_vars, before, trace_vars >>

\* SimulationContext::step_time at the end of the runner's step
StepClock ==
    /\ pc = "kitchen_step"
    /\ now' = now + TimeStep
    /\ pc' = "step_time"
    /\ UNCHANGED << orders, order_lines, last >>
    /\ UNCHANGED << population, journeys, picked_up_orders, incoming, events, calls >>
    /\ UNCHANGED << movement_vars, legacy_vars, before, trace_vars >>

SendEvents ==
    /\ pc = "step_time"
    /\ pc' = "idle"
    /\ calls' = calls + 1
    /\ UNCHANGED << population, journeys, picked_up_orders, incoming, events >>
    /\ UNCHANGED << kitchen_vars, movement_vars, legacy_vars, before, trace_vars >>

RunnerPopulations ==
    [1..MaxCouriers -> [role : {Courier}, status : {Idle}, tile : Tiles]]

RunnerInit ==
    /\ KitchenInit
    /\ population \in RunnerPopulations
    /\ journeys = {}
    /\ NoJourney
    /\ NoPeople
    /\ before = NoMark
    /\ NoTrace
    /\ picked_up_orders = None
    /\ incoming = << >>
    /\ events = {}
    /\ pc = "idle"
    /\ calls = 0

RunnerNext ==
    \/ AdvanceJourneys
    \/ AssignCouriers
    \/ SetPersonStatus
    \/ PlanJourneys
    \/ StartJourneys
    \/ CreateOrders
    \/ KitchenStep
    \/ StepClock
    \/ SendEvents

RunnerSpec == RunnerInit /\ [][RunnerNext]_vars

\* assign_couriers on its own: the tables a run can have built when a tick
\* reaches assign_couriers.  Every order has one line of menu item 1; the
\* line of a Ready order is complete.
PickupOrders ==
    UNION {[1..n -> [site_id : Sites, submitted_at : 0..1, status : {Submitted, Ready}]]
             : n \in 1..MaxReady}

PickupKitchen(ord, o) ==
    IF ord[o].site_id = 1
    THEN 1
    ELSE IF Cardinality({o2 \in 1..(o - 1) : ord[o2].site_id = 2}) % 2 = 0 THEN 2 ELSE 3

PickupLines(ord) ==
    [o \in DOMAIN ord |->
        [order_id |-> o,
         menu_item_id |-> 1,
         kitchen_id |-> PickupKitchen(ord, o),
         submitted_at |-> ord[o].submitted_at,
         current_step |-> IF ord[o].status = Ready THEN 2 ELSE 1,
         total_steps |-> 1,
         assigned_to |-> NULL,
         step_completion_time |-> NullTime,
         is_complete |-> ord[o].status = Ready]]

CourierPopulations ==
    [1..MaxCouriers -> [role : {Courier}, status : {Idle, Delivering}, tile : Tiles]]

AssignInit ==
    /\ now = MaxTime
    /\ orders \in PickupOrders
    /\ order_lines = PickupLines(orders)
    /\ last = "step"
    /\ population \in CourierPopulations
    /\ journeys = {}
    /\ NoJourney
    /\ NoPeople
    /\ before = NoMark
    /\ NoTrace
    /\ picked_up_orders = None
    /\ incoming = << >>
    /\ events = {}
    /\ pc = "advance_journeys"
    /\ calls = MaxTime

AssignSpec == AssignInit /\ [][AssignCouriers]_vars

\* ------------------------------------------------------------------------
\* Simulation (simulation/mod.rs), the engine that stamps the events itself
\* ------------------------------------------------------------------------
\* the payloads the agents of a tick can hand to Simulation::step
LegacyPayloads ==
    [type : {"person_updated", "order_updated", "order_line_updated", "order_created"},
     subject : 1..MaxOrders]

\* time_step.mul_f32(u) for u drawn from Uniform(0, 0.9999), in whole seconds
StampOffsets == 0..(TimeStep - 1)

\* Simulation::write_events: each payload gets current_time plus its own draw
write_events(payloads, current_time) ==
    {{[type |-> p.type, subject |-> p.subject, timestamp |-> current_time + draw[p]]
         : p \in payloads}
       : draw \in [payloads -> StampOffsets]}

\* Simulation::step: the agents produce the payloads at the time of the
\* tick, State::step moves the clock, write_events then stamps the payloads
SimulationStep ==
    /\ calls < MaxCalls
    /\ now' = now + TimeStep
    /\ \E payloads \in SUBSET LegacyPayloads :
          events' \in write_events(payloads, now')
    /\ calls' = calls + 1
    /\ last' = "simulation_step"
    /\ UNCHANGED << orders, order_lines, population, journeys,
                    picked_up_orders, incoming, pc >>
    /\ UNCHANGED << movement_vars, legacy_vars, before, trace_vars >>

LegacySpec == Init /\ [][SimulationStep]_vars

\* ------------------------------------------------------------------------
\* A single Journey under a sequence of Journey::advance calls
\* ------------------------------------------------------------------------
LegDistances == UNION {[1..n -> 0..MaxLegDistance] : n \in 0..MaxLegs}

Journeys == {NewJourney(t, d) : t \in Transports, d \in LegDistances}

JourneyInit ==
    /\ KitchenInit
    /\ population = EmptyTable
    /\ journeys = {}
    /\ picked_up_orders = None
    /\ incoming = << >>
    /\ events = {}
    /\ pc = "idle"
    /\ calls = 0
    /\ journey \in Journeys
    /\ elapsed = 0
    /\ positions = << >>
    /\ trail = << >>
    /\ NoPeople
    /\ before = NoMark
    /\ NoTrace

\* one call of Journey::advance
Advance(time_step) ==
    /\ LET r == advance(journey, time_step)
       IN  /\ journey' = r.journey
           /\ positions' = r.traversed_points
           /\ trail' = trail \o r.traversed_points
    /\ elapsed' = time_step
    /\ UNCHANGED << kitchen_vars, runner_vars, legacy_vars, before, trace_vars >>

AdvanceZero == Advance(0)

AdvancePositive == \E time_step \in 1..MaxTimeStep : Advance(time_step)

JourneyNext ==
    \/ AdvanceZero
    \/ AdvancePositive

JourneySpec == JourneyInit /\ [][JourneyNext]_vars

\* the calls with a positive time step keep coming
JourneyLiveSpec == JourneySpec /\ WF_vars(AdvancePositive)

\* ------------------------------------------------------------------------
\* A journey as a Journey and as a row of PopulationHandler.journeys
\* ------------------------------------------------------------------------
\* the journey of a person, started in the table as well
MovementInit ==
    /\ KitchenInit
    /\ population = EmptyTable
    /\ picked_up_orders = None
    /\ incoming = << >>
    /\ events = {}
    /\ pc = "idle"
    /\ calls = 0
    /\ journey \in Journeys
    /\ journeys = start_journeys({}, {[person_id |-> 1, journey |-> journey]})
    /\ elapsed = 0
    /\ positions = << >>
    /\ trail = << >>
    /\ NoPeople
    /\ before = NoMark
    /\ NoTrace

\* PopulationHandler::advance_journeys in a tick
TableTick ==
    /\ journeys' = advance_journeys(journeys)
    /\ pc' = "advance_journeys"
    /\ UNCHANGED << population, picked_up_orders, incoming, events, calls >>
    /\ UNCHANGED << kitchen_vars, movement_vars, legacy_vars, before, trace_vars >>

TableSpec == MovementInit /\ [][TableTick]_vars

MovementNext ==
    \/ AdvanceZero
    \/ AdvancePositive
    \/ TableTick

\* the ticks and the calls with a positive time step keep coming
MovementLiveSpec ==
    MovementInit /\ [][MovementNext]_vars
        /\ WF_vars(AdvancePositive) /\ WF_vars(TableTick)

\* ------------------------------------------------------------------------
\* Snapshots (context/schemas/snapshots.rs) and the handlers built from them
\* ------------------------------------------------------------------------
\* the columns of the orders table of a snapshot that the model carries
SnapshotOrders(ord) ==
    [o \in DOMAIN ord |-> [site_id |-> ord[o].site_id, status |-> ord[o].status]]

\* the columns of the order_lines table of a snapshot that the model carries
SnapshotOrderLines(ol) ==
    [l \in DOMAIN ol |->
        [order_id |-> ol[l].order_id, menu_item_id |-> ol[l].menu_item_id]]

\* create_snapshot: the population, orders and order_lines tables written
\* under a new snapshot id; there is no table for the journeys
create_snapshot(pop, ord, ol) ==
    [population |-> pop,
     orders |-> SnapshotOrders(ord),
     order_lines |-> SnapshotOrderLines(ol)]

\* KitchenHandler::try_new: the objects are read from the snapshot, orders
\* and order_lines start empty
KitchenHandler_try_new(snapshot) ==
    [orders |-> EmptyTable, order_lines |-> EmptyTable]

\* PopulationHandler::try_new: the population is read from the snapshot, the
\* journeys start empty
PopulationHandler_try_new(snapshot) ==
    [population |-> snapshot.population, journeys |-> {}]

\* a snapshot written between two ticks, and the handlers built from it
\* (SimulationRunnerBuilder::build)
Restore ==
    /\ pc = "idle"
    /\ calls > 0
    /\ LET snapshot == create_snapshot(population, orders, order_lines)
           kitchens == KitchenHandler_try_new(snapshot)
           people == PopulationHandler_try_new(snapshot)
       IN  /\ orders' = kitchens.orders
           /\ order_lines' = kitchens.order_lines
           /\ population' = people.population
           /\ journeys' = people.journeys
    /\ last' = "new"
    /\ UNCHANGED << now, picked_up_orders, incoming, events, pc, calls >>
    /\ UNCHANGED << movement_vars, legacy_vars, before, trace_vars >>

RestoreNext ==
    \/ RunnerNext
    \/ Restore

RestoreSpec == RunnerInit /\ [][RestoreNext]_vars

\* ------------------------------------------------------------------------
\* SimulationRunner::step with a call that returns an error
\* ------------------------------------------------------------------------
\* the tables of the handlers
World ==
    [orders |-> orders, order_lines |-> order_lines,
     population |-> population, journeys |-> journeys]

\* the tables of the handlers noted at the start of a tick
MarkTick ==
    /\ pc = "idle"
    /\ calls < MaxCalls
    /\ before' = [calls |-> calls, world |-> World]
    /\ UNCHANGED << kitchen_vars, runner_vars, movement_vars, legacy_vars, trace_vars >>

\* the positions of SimulationRunner::step whose next call is awaited with `?`
FalliblePositions ==
    {"idle", "advance_journeys", "assign_couriers", "set_person_status",
     "plan_journeys", "start_journeys", "create_orders", "step_time"}

\* the next call of SimulationRunner::step returns an error before it writes
\* anything, and step returns that error
CallFails ==
    /\ pc \in FalliblePositions
    /\ pc = "idle" => calls < MaxCalls
    /\ pc' = "failed"
    /\ UNCHANGED << population, journeys, picked_up_orders, incoming, events, calls >>
    /\ UNCHANGED << kitchen_vars, movement_vars, legacy_vars, before, trace_vars >>

\* KitchenHandler::prepare_order_lines returns an error after it has written
\* self.order_lines and before it writes self.orders
PrepareOrderLinesFails ==
    /\ pc = "create_orders"
    /\ incoming # << >>
    /\ \E r \in prepare_order_lines(incoming) : order_lines' = r.order_lines
    /\ last' = "prepare_order_lines"
    /\ pc' = "failed"
    /\ UNCHANGED << now, orders >>
    /\ UNCHANGED << population, journeys, picked_up_orders, incoming, events, calls >>
    /\ UNCHANGED << movement_vars, legacy_vars, before, trace_vars >>

FailNext ==
    \/ RunnerNext
    \/ MarkTick
    \/ CallFails
    \/ PrepareOrderLinesFails

FailSpec == RunnerInit /\ [][FailNext]_vars

\* ------------------------------------------------------------------------
\* The people of the State (state/population.rs) and their journeys
\* ------------------------------------------------------------------------
AwaitingOrder == "awaiting-order"

Eating == "eating"

Moving == "moving"

WaitingForCustomer == "waiting-for-customer"

Delivered == "delivered"

\* the 30 * 60 seconds a customer eats, the time unit being the second
EatingSeconds == 30 * 60

\* PersonStatus: the flag with the order, the journey and the time of the
\* variant, the fields a variant does not have being NULL, the default
\* journey and NullTime
PersonStatus(flag, order_id, j, until) ==
    [flag |-> flag, order_id |-> order_id, journey |-> j, until |-> until]

IdleStatus == PersonStatus(Idle, NULL, DefaultJourney, NullTime)

\* EventPayload::person_updated
person_updated(person_id, status) ==
    [type |-> "person_updated", subject |-> person_id, status |-> status]

\* EventPayload::order_updated
order_updated(order_id, status) ==
    [type |-> "order_updated", subject |-> order_id, status |-> status]

\* the arm of the match of PopulationData::update_journeys for a person
\* waiting for the customer, with the courier waiting on
NextStatus_keeps_waiting(person_id, status, current_time, time_step, order_data) ==
    LET moved == advance(status.journey, time_step).journey
    IN  CASE status.flag = Moving ->
               [journey |-> moved,
                events |-> << >>,
                next_status |-> IF is_done(moved) THEN << IdleStatus >> ELSE << >>]
          [] status.flag = Delivering ->
               [journey |-> moved,
                events |-> << >>,
                next_status |->
                    IF is_done(moved)
                    THEN << PersonStatus(WaitingForCustomer, status.order_id,
                                         reset_reverse(moved), NullTime) >>
                    ELSE << >>]
          [] status.flag = WaitingForCustomer ->
               [journey |-> status.journey,
                events |->
                    IF status.order_id \in DOMAIN order_data
                    THEN << order_updated(status.order_id, Delivered),
                            person_updated(
                                order_data[status.order_id].customer_person_id,
                                PersonStatus(Eating, NULL, DefaultJourney,
                                             current_time + EatingSeconds)) >>
                    ELSE << >>,
                next_status |-> << >>]
          [] OTHER ->
               [journey |-> status.journey, events |-> << >>, next_status |-> << >>]

\* the arm of the match of PopulationData::update_journeys for one person:
\* the journey after the advance made in place, the payloads pushed and
\* the next status, if any
NextStatus(person_id, status, current_time, time_step, order_data) ==
    LET moved == advance(status.journey, time_step).journey
    IN  CASE status.flag = Moving ->
               [journey |-> moved,
                events |-> << >>,
                next_status |-> IF is_done(moved) THEN << IdleStatus >> ELSE << >>]
          [] status.flag = Delivering ->
               [journey |-> moved,
                events |-> << >>,
                next_status |->
                    IF is_done(moved)
                    THEN << PersonStatus(WaitingForCustomer, status.order_id,
                                         reset_reverse(moved), NullTime) >>
                    ELSE << >>]
          [] status.flag = WaitingForCustomer ->
               [journey |-> status.journey,
                events |->
                    IF status.order_id \in DOMAIN order_data
                    THEN << order_updated(status.order_id, Delivered),
                            person_updated(
                                order_data[status.order_id].customer_person_id,
                                PersonStatus(Eating, NULL, DefaultJourney,
                                             current_time + EatingSeconds)) >>
                    ELSE << >>,
                next_status |->
                    << PersonStatus(Moving, NULL, status.journey, NullTime) >>]
          [] OTHER ->
               [journey |-> status.journey, events |-> << >>, next_status |-> << >>]

\* PopulationData::update_journeys over the first n people of the index:
\* the index with the journeys advanced, and the payloads in their order
RECURSIVE update_journeys(_, _, _, _, _)
update_journeys(lookup, n, current_time, time_step, order_data) ==
    IF n = 0
    THEN [lookup_index |-> lookup, events |-> << >>]
    ELSE LET r == update_journeys(lookup, n - 1, current_time, time_step, order_data)
             u == NextStatus(n, lookup[n], current_time, time_step, order_data)
         IN  [lookup_index |-> [r.lookup_index EXCEPT ![n].journey = u.journey],
              events |-> r.events \o u.events \o
                         [k \in DOMAIN u.next_status |->
                             person_updated(n, u.next_status[k])]]

\* State::step with PopulationData::update_person_status: the statuses of
\* the person_updated payloads, written in the order of the payloads
RECURSIVE update_person_status(_, _)
update_person_status(lookup, payloads) ==
    IF payloads = << >>
    THEN lookup
    ELSE LET e == Head(payloads)
         IN  update_person_status(
                 IF e.type = "person_updated"
                 THEN [lookup EXCEPT ![e.subject] = e.status]
                 ELSE lookup,
                 Tail(payloads))

\* the orders of the State under delivery: order o is carried by courier o
\* to customer MaxCouriers + o
DeliveryOrders ==
    [o \in 1..MaxCouriers |-> [customer_person_id |-> MaxCouriers + o, status |-> PickedUp]]

\* the journeys of the couriers: up to two legs
DeliveryJourneys ==
    {NewJourney(DefaultTransport, d) : d \in {x \in LegDistances : Len(x) <= 2}}

\* couriers on their way with an order each, customers waiting for it
DeliveryIndexes ==
    {[p \in 1..(2 * MaxCouriers) |->
         IF p <= MaxCouriers
         THEN PersonStatus(Delivering, p, js[p], NullTime)
         ELSE PersonStatus(AwaitingOrder, p - MaxCouriers, DefaultJourney, NullTime)]
       : js \in [1..MaxCouriers -> DeliveryJourneys]}

DeliveryInit ==
    /\ now = 0
    /\ orders = DeliveryOrders
    /\ order_lines = EmptyTable
    /\ last = "new"
    /\ population = EmptyTable
    /\ journeys = {}
    /\ picked_up_orders = None
    /\ incoming = << >>
    /\ events = {}
    /\ pc = "idle"
    /\ calls = 0
    /\ NoJourney
    /\ before = NoMark
    /\ NoTrace
    /\ lookup_index \in DeliveryIndexes
    /\ emitted = << >>

\* Simulation::step with no site: State::move_people, then State::step with
\* the payloads, which writes the statuses and moves the clock
MovePeople ==
    /\ calls < MaxMoves
    /\ LET r == update_journeys(lookup_index, Len(lookup_index), now, TimeStep, orders)
       IN  /\ lookup_index' = update_person_status(r.lookup_index, r.events)
           /\ emitted' = emitted \o r.events
    /\ now' = now + TimeStep
    /\ calls' = calls + 1
    /\ last' = "move_people"
    /\ UNCHANGED << orders, order_lines, population, journeys,
                    picked_up_orders, incoming, events, pc >>
    /\ UNCHANGED << movement_vars, before, trace_vars >>

DeliverySpec == DeliveryInit /\ [][MovePeople]_vars

\* ------------------------------------------------------------------------
\* Properties
\* ------------------------------------------------------------------------
Incomplete == {l \in DOMAIN order_lines : ~order_lines[l].is_complete}

LinesOf(o) == {l \in DOMAIN order_lines : order_lines[l].order_id = o}

\* C1: every station is the assigned station (assigned_to) of at most one
\* order line that is not complete.
C1_StationCapacity ==
    \A s \in Stations :
        Cardinality({l \in Incomplete : order_lines[l].assigned_to = s}) <= 1

\* two incomplete lines of one kitchen need the same station type; one holds
\* a station and the other was left waiting by process_order_lines
C1_Witness ==
    /\ last = "process_order_lines"
    /\ \E l1, l2 \in Incomplete :
         /\ l1 # l2
         /\ order_lines[l1].kitchen_id = order_lines[l2].kitchen_id
         /\ RequiredStation(order_lines[l1]) = RequiredStation(order_lines[l2])
         /\ order_lines[l1].assigned_to # NULL
         /\ order_lines[l2].assigned_to = NULL

\* C2: every incomplete line has 1 <= current_step <= total_steps, and for
\* every line is_complete = (current_step > total_steps).
C2_StepRange ==
    \A l \in DOMAIN order_lines :
        /\ ~order_lines[l].is_complete =>
              /\ 1 <= order_lines[l].current_step
              /\ order_lines[l].current_step <= order_lines[l].total_steps
        /\ order_lines[l].is_complete =
              (order_lines[l].current_step > order_lines[l].total_steps)

\* process_order_lines has completed one line and left another on its
\* second step
C2_Witness ==
    /\ last = "process_order_lines"
    /\ \E l \in DOMAIN order_lines : order_lines[l].is_complete
    /\ \E l \in Incomplete : order_lines[l].current_step = 2

\* C3: after every call to KitchenHandler::step an order is Ready if and
\* only if every one of its order lines is complete.
C3_ReadyIffAllComplete ==
    last = "step" =>
        \A o \in DOMAIN orders :
            (orders[o].status = Ready) <=>
                (\A l \in LinesOf(o) : order_lines[l].is_complete)

\* C4: every incomplete line that holds a station holds a station of its
\* assigned kitchen whose type is the required station of its current step.
C4_StationMatchesStep ==
    \A l \in Incomplete :
        order_lines[l].assigned_to # NULL =>
            /\ order_lines[l].assigned_to \in Stations
            /\ StationKitchen(order_lines[l].assigned_to) = order_lines[l].kitchen_id
            /\ StationType(order_lines[l].assigned_to) = RequiredStation(order_lines[l])

\* a line on its second step holds the oven while a line on its first step
\* holds a workstation
C4_Witness ==
    /\ \E l \in Incomplete :
         /\ order_lines[l].current_step = 2
         /\ order_lines[l].assigned_to # NULL
         /\ StationType(order_lines[l].assigned_to) = Oven
    /\ \E l \in Incomplete :
         /\ order_lines[l].current_step = 1
         /\ order_lines[l].assigned_to # NULL

\* the lines that hold a station and whose step is finished at time now
Due == {l \in Incomplete :
          /\ order_lines[l].assigned_to # NULL
          /\ order_lines[l].step_completion_time # NullTime
          /\ order_lines[l].step_completion_time <= now}

\* C5: a call of process_order_lines advances every incomplete line that
\* holds a station and has step_completion_time <= now by exactly one step,
\* and clears its assigned station and step_completion_time.
C5_DueLinesAdvance ==
    [][last' = "process_order_lines" =>
         \A l \in Due :
            /\ order_lines'[l].current_step = order_lines[l].current_step + 1
            /\ order_lines'[l].assigned_to = NULL
            /\ order_lines'[l].step_completion_time = NullTime
            /\ order_lines'[l].is_complete =
                  (order_lines[l].current_step = order_lines[l].total_steps)]_vars

\* the line is stored with a kitchen that owns a station of every type the
\* line's recipe requires
Serviceable(l) ==
    /\ l \in DOMAIN order_lines
    /\ order_lines[l].kitchen_id \in Kitchens
    /\ \A i \in 1..Len(Instructions(order_lines[l].menu_item_id)) :
          \E s \in Stations :
             /\ StationKitchen(s) = order_lines[l].kitchen_id
             /\ StationType(s) =
                   Instructions(order_lines[l].menu_item_id)[i].required_station

Finished(l) ==
    /\ l \in DOMAIN order_lines
    /\ order_lines[l].is_complete

ReadyOrder(o) ==
    /\ o \in DOMAIN orders
    /\ orders[o].status = Ready

AllServiceable(o) ==
    /\ o \in DOMAIN orders
    /\ LinesOf(o) # {}
    /\ \A l \in LinesOf(o) : Serviceable(l)

\* C6: with a tick (KitchenHandler::step, then step_time) taken again and
\* again, every line routed to a kitchen that owns a station of each type
\* its recipe requires is eventually complete, and an order whose lines are
\* all such lines is eventually Ready.
C6_EventuallyComplete ==
    /\ \A l \in 1..MaxLines : Serviceable(l) ~> Finished(l)
    /\ \A o \in 1..MaxOrders : AllServiceable(o) ~> ReadyOrder(o)

\* C9: every stored order line has exactly one kitchen, on the site of the
\* line's order, that accepts the brand of the line's menu item.
C9_LineKitchenOnOrderSite ==
    \A l \in DOMAIN order_lines :
        /\ order_lines[l].kitchen_id \in Kitchens
        /\ KitchenSite(order_lines[l].kitchen_id) = orders[order_lines[l].order_id].site_id
        /\ ItemBrand(order_lines[l].menu_item_id) \in AcceptedBrands(order_lines[l].kitchen_id)

\* C10: order_lines holds no row for a line without an eligible kitchen.
C10_UnserviceableDropped ==
    \A l \in DOMAIN order_lines :
        EligibleKitchens(orders[order_lines[l].order_id].site_id,
                         order_lines[l].menu_item_id) # {}

\* the lines a step has added to order_lines with a kitchen
NewRouted ==
    {l \in DOMAIN order_lines' \ DOMAIN order_lines :
        order_lines'[l].kitchen_id # NULL}

NewEligible(l) ==
    EligibleKitchens(orders'[order_lines'[l].order_id].site_id,
                     order_lines'[l].menu_item_id)

\* outstanding lines of kitchen k when the i-th line of ord is routed: the
\* incomplete lines stored before the call and the lines routed before it
LoadBefore(k, ord, i) ==
    Outstanding(order_lines, k)
    + Cardinality({j \in 1..(i - 1) : order_lines'[ord[j]].kitchen_id = k})

\* C7: each new line goes to an eligible kitchen whose number of outstanding
\* lines (incomplete lines, plus the lines routed earlier in the batch) is
\* minimal among its eligible kitchens; complete lines do not count.
C7_LeastOutstanding ==
    [][NewRouted # {} =>
         \E ord \in Perms(NewRouted) :
            \A i \in 1..Len(ord) :
                /\ order_lines'[ord[i]].kitchen_id \in NewEligible(ord[i])
                /\ \A k \in NewEligible(ord[i]) :
                      LoadBefore(order_lines'[ord[i]].kitchen_id, ord, i)
                          <= LoadBefore(k, ord, i)]_vars

\* C8: among the eligible kitchens with the minimal load the line goes to
\* the one with the smallest kitchen_id, whatever the order of the candidates.
C8_TieToSmallestId ==
    [][NewRouted # {} =>
         \E ord \in Perms(NewRouted) :
            \A i \in 1..Len(ord) :
                \A k \in NewEligible(ord[i]) :
                    (/\ LoadBefore(k, ord, i)
                          = LoadBefore(order_lines'[ord[i]].kitchen_id, ord, i)
                     /\ \A k2 \in NewEligible(ord[i]) :
                          LoadBefore(k, ord, i) <= LoadBefore(k2, ord, i))
                    => order_lines'[ord[i]].kitchen_id <= k]_vars

\* C11: an incoming order whose destination cell holds no site is dropped:
\* the orders table holds no order without a site, and order_lines holds no
\* line of such an order.
C11_UnreachableDropped ==
    /\ \A o \in DOMAIN orders : orders[o].site_id # NULL
    /\ \A l \in DOMAIN order_lines :
          order_lines[l].order_id \in DOMAIN orders
             => orders[order_lines[l].order_id].site_id # NULL

\* C12: every order of the orders table has at least one line in
\* order_lines.
C12_OrdersHaveLines ==
    \A o \in DOMAIN orders : LinesOf(o) # {}

\* two consecutive process_order_lines calls with no step of the clock between
SecondCallSameTime ==
    last = "process_order_lines" /\ last' = "process_order_lines" /\ now' = now

\* C13 (as stated): a second process_order_lines call at the same simulation
\* time leaves order_lines exactly as the first call produced it.
C13_Idempotent ==
    [][SecondCallSameTime => order_lines' = order_lines]_vars

\* C13 (amended): a second process_order_lines call at the same simulation
\* time keeps the set of lines and leaves unchanged every line that the first
\* call left complete or bound to a station; only lines left without a
\* station (still queued, or just advanced to their next step) may change, and
\* such a line keeps its step or moves one step further.
C13_SecondCallKeepsSettledLines ==
    [][SecondCallSameTime =>
         /\ DOMAIN order_lines' = DOMAIN order_lines
         /\ \A l \in DOMAIN order_lines :
               IF order_lines[l].is_complete \/ order_lines[l].assigned_to # NULL
               THEN order_lines'[l] = order_lines[l]
               ELSE order_lines'[l].current_step \in
                      {order_lines[l].current_step, order_lines[l].current_step + 1}]_vars

\* at time 0 a line reached a station for its second step (so a second call
\* ran at the time of the first) while another line kept its first station
C13_Witness ==
    /\ now = 0
    /\ last = "process_order_lines"
    /\ \E l, l2 \in DOMAIN order_lines :
          /\ l # l2
          /\ order_lines[l].current_step = 2
          /\ order_lines[l].assigned_to # NULL
          /\ order_lines[l2].current_step = 1
          /\ order_lines[l2].assigned_to # NULL

\* queued + in_progress + completed of KitchenStats
StatsTotal(ol) ==
    get_stats(ol).queued + get_stats(ol).in_progress + get_stats(ol).completed

\* C14: process_order_lines neither adds nor removes order lines: after each
\* call, at the time of the call before or at a later time, queued +
\* in_progress + completed of get_stats is the number of lines
\* prepare_order_lines created.
C14_LinesConserved ==
    [][last' = "process_order_lines" =>
         /\ DOMAIN order_lines' = DOMAIN order_lines
         /\ StatsTotal(order_lines') = Cardinality(DOMAIN order_lines)]_vars

\* after a call at a later time one line is complete and another in progress
C14_Witness ==
    /\ last = "process_order_lines"
    /\ now > 0
    /\ get_stats(order_lines).completed > 0
    /\ get_stats(order_lines).in_progress > 0
    /\ StatsTotal(order_lines) = MaxLines

\* ------------------------------------------------------------------------
\* Contention for the oven: orders of the items that need the oven, placed
\* at the site whose single kitchen has a single oven
\* ------------------------------------------------------------------------
OvenItems == {2, 3}

QueueBatches ==
    LET room == MaxLines - Cardinality(DOMAIN order_lines)
    IN  {<< o >> : o \in [cell : {SiteCell(1)},
                          submitted_at : now..(now + TimeStep),
                          items : UNION {[1..i -> OvenItems] : i \in 1..room}]}

QueuePrepare ==
    /\ Cardinality(DOMAIN orders) < MaxOrders
    /\ PrepareFrom(QueueBatches)

QueueNext ==
    \/ QueuePrepare
    \/ ProcessOrderLines
    \/ StepTime

QueueSpec == Init /\ [][QueueNext]_vars

\* the kitchens and station types served by exactly one station
SoleStations ==
    {s \in Stations :
        \A s2 \in Stations :
            StationKitchen(s2) = StationKitchen(s) /\ StationType(s2) = StationType(s)
               => s2 = s}

\* the incomplete lines without a station that wait for station s
Waiting(s) ==
    {l \in DOMAIN order_lines :
        /\ ~order_lines[l].is_complete
        /\ order_lines[l].assigned_to = NULL
        /\ order_lines[l].kitchen_id = StationKitchen(s)
        /\ RequiredStation(order_lines[l]) = StationType(s)}

\* the lines whose previous step was done on a station of the type of s
Released(s) ==
    {l \in DOMAIN order_lines :
        /\ order_lines[l].kitchen_id = StationKitchen(s)
        /\ order_lines[l].assigned_to = NULL
        /\ order_lines[l].current_step > 1
        /\ Instructions(order_lines[l].menu_item_id)[order_lines[l].current_step - 1].required_station
              = StationType(s)}

\* line l was bound to s by the call: it holds s, or (with a drawn duration
\* of zero) has already finished the step
Served(l, s) ==
    \/ order_lines'[l].assigned_to = s
    \/ order_lines'[l].current_step = order_lines[l].current_step + 1

\* line w has needed the station since it was created together with line h,
\* which was served first
WaitedFor(w, h) ==
    /\ h # w
    /\ order_lines[h].order_id = order_lines[w].order_id
    /\ order_lines[w].current_step = 1

\* C15 (as stated): when two lines of a kitchen wait for its only station of
\* a type and the station is free, a process_order_lines call binds exactly
\* one of them and leaves the other queued; and a line that has waited while
\* another line of its order held the station is bound by the call that
\* finds the station released.
C15_WaitingLineBoundNext ==
    [][last' = "process_order_lines" =>
         \A s \in SoleStations \cap available_stations(order_lines) :
            /\ \A l1, l2 \in Waiting(s) :
                  (l1 # l2 /\ Waiting(s) = {l1, l2}) =>
                      \/ Served(l1, s) /\ order_lines'[l2] = order_lines[l2]
                      \/ Served(l2, s) /\ order_lines'[l1] = order_lines[l1]
            /\ \A w \in Waiting(s) :
                  (\E h \in Released(s) : WaitedFor(w, h)) => Served(w, s)]_vars

\* C15 (amended): when lines of a kitchen wait for its only station of a type
\* and the station is free, a process_order_lines call binds exactly one of
\* them and leaves the others queued and unchanged; so a waiting line is bound
\* by the first call that finds the station free and no other line waiting
\* for it, which is the call after the release when the line that held the
\* station is complete or goes on to a station of another type.
C15_OneWaitingLineBound ==
    [][last' = "process_order_lines" =>
         \A s \in SoleStations \cap available_stations(order_lines) :
            Waiting(s) # {} =>
               \E l \in Waiting(s) :
                  /\ Served(l, s)
                  /\ \A l2 \in Waiting(s) \ {l} :
                        order_lines'[l2] = order_lines[l2]]_vars

\* two lines of one order that both started on the oven: one has finished
\* both of its oven steps, the other now holds the oven
C15_Witness ==
    /\ last = "process_order_lines"
    /\ \E h, w \in DOMAIN order_lines :
          /\ h # w
          /\ order_lines[h].order_id = order_lines[w].order_id
          /\ order_lines[h].menu_item_id = 3
          /\ order_lines[w].menu_item_id = 3
          /\ order_lines[h].is_complete
          /\ order_lines[w].assigned_to = 3

\* the ready orders of a tile and the pairs assign_couriers made for it
ReadyInTile(t) ==
    {o \in DOMAIN orders : orders[o].status = Ready /\ SiteTile(orders[o].site_id) = t}

PairedInTile(t) ==
    {r \in picked_up_orders.rows : SiteTile(r.site_id) = t}

\* C16: for every tile, assign_couriers makes min(ready orders of the tile,
\* idle couriers of the tile) pairs, and the paired orders are the ones with
\* the earliest submitted_at of the tile, also when several tiles hold ready
\* orders.
C16_PairsPerTile ==
    (pc = "assign_couriers" /\ picked_up_orders.some) =>
        \A t \in Tiles :
            /\ Cardinality(PairedInTile(t)) =
                  Min2(Cardinality(ReadyInTile(t)),
                       Cardinality(IdleCouriers(population, t)))
            /\ \A r \in PairedInTile(t) :
                  \A o \in ReadyInTile(t) \ {r2.order_id : r2 \in PairedInTile(t)} :
                      orders[r.order_id].submitted_at <= orders[o].submitted_at

\* the orders paired with a courier by the last assign_couriers call
PairedOrders(picked) == {r.order_id : r \in picked.rows}

\* C17: an order is picked up at most once: an order that assign_couriers
\* paired with a courier in one tick (for which order_picked_up was emitted)
\* is not Ready any more and is not paired again by the assign_couriers call
\* of the next tick.
C17_PickedUpOnce ==
    [][pc' = "assign_couriers" =>
          PairedOrders(picked_up_orders) \cap PairedOrders(picked_up_orders') = {}]_vars

\* C18: once the runner has started the journeys of a tick, every courier
\* paired in the tick is Delivering and has an active journey at its start
\* (leg cursor 0, leg progress 0), and every person with status Delivering
\* has a journey in the journeys table.
C18_DeliveringHasJourney ==
    pc \notin {"set_person_status", "plan_journeys"} =>
        /\ \A p \in DOMAIN population :
              population[p].status = Delivering =>
                 \E j \in journeys : j.person_id = p
        /\ pc = "start_journeys" =>
              \A r \in picked_up_orders.rows :
                 /\ population[r.assigned_courier].status = Delivering
                 /\ \E j \in journeys :
                       /\ j.person_id = r.assigned_courier
                       /\ ~j.is_complete
                       /\ j.current_leg_index = 0
                       /\ j.current_leg_progress = 0

\* the calls that may come directly before a call of SimulationRunner::step;
\* the three calls that serve the picked up orders are made only when
\* assign_couriers returned a frame
CallBefore(call) ==
    CASE call = "advance_journeys" -> {"idle"}
      [] call = "assign_couriers" -> {"advance_journeys"}
      [] call = "set_person_status" -> {"assign_couriers"}
      [] call = "plan_journeys" -> {"set_person_status"}
      [] call = "start_journeys" -> {"plan_journeys"}
      [] call = "create_orders" -> {"assign_couriers", "start_journeys"}
      [] call = "kitchen_step" -> {"create_orders"}
      [] call = "step_time" -> {"kitchen_step"}
      [] call = "idle" -> {"step_time"}

C20_EventsWithinTick ==
    (pc = "idle" /\ calls > 0) =>
        \A e \in events :
            /\ now - TimeStep <= e.timestamp
            /\ e.timestamp < now

\* the current leg of a journey that is not done
CurrentLeg(j) == j.legs[j.current_leg_index + 1]

\* leg_cursor + leg_progress is at most the number of legs: the cursor is at
\* most the number of legs, the progress is a fraction of the current leg
\* below 1, and it is 0 behind the last leg
CursorBounded(j) ==
    /\ j.current_leg_index <= Len(j.legs)
    /\ j.current_leg_progress >= 0
    /\ is_done(j) => j.current_leg_progress = 0
    /\ ~is_done(j) => j.current_leg_progress <= CurrentLeg(j).distance_m

\* leg_cursor + leg_progress of k is at least that of j, for two states of
\* one journey with fractions below 1 of a leg
CursorNotBehind(j, k) ==
    \/ k.current_leg_index > j.current_leg_index
    \/ /\ k.current_leg_index = j.current_leg_index
       /\ k.current_leg_progress >= j.current_leg_progress

\* the cursor of the journey before and after a step
CursorStep ==
    /\ CursorBounded(journey)
    /\ CursorBounded(journey')
    /\ CursorNotBehind(journey, journey')
    /\ is_done(journey') <=> journey'.current_leg_index >= Len(journey'.legs)

\* C21: over every sequence of advance calls of a journey, leg_cursor +
\* leg_progress never decreases and never exceeds the number of legs, and
\* is_done holds exactly when leg_cursor is at least the number of legs.
C21_CursorMonotoneBounded == [][CursorStep]_vars

\* a call that finished one leg and stopped inside the next one
C21_Witness ==
    /\ elapsed > 0
    /\ journey.current_leg_index > 0
    /\ journey.current_leg_progress > 0
    /\ ~is_done(journey)

\* the number of times a point appears in a list of positions
Occurrences(points, point) ==
    Cardinality({k \in DOMAIN points : points[k] = point})

\* C22: once a journey is done, the destination of each of its legs appears
\* exactly once in the concatenation of the position lists its advance calls
\* returned.
C22_DestinationsOnce ==
    is_done(journey) =>
        \A i \in DOMAIN journey.legs :
            Occurrences(trail, journey.legs[i].destination) = 1

\* the destinations of the legs of a journey from its current leg on
DestinationsAhead(j) ==
    [k \in 1..(Len(j.legs) - j.current_leg_index) |->
        j.legs[j.current_leg_index + k].destination]

\* C23 as stated: for a journey of total distance 0 (no legs, or only legs
\* of distance 0) every advance call returns an empty position list and
\* leaves the journey done.
C23_ZeroDistanceEmptyDone ==
    [][total_distance_m(journey) = 0 =>
           positions' = << >> /\ is_done(journey')]_vars

\* C23, amended: a journey with no legs is done and every advance call on it
\* returns an empty list; on a journey with only legs of distance 0 a call
\* with a positive time step returns the destination of every leg, in
\* order, and leaves the journey done, and a call with a zero time step
\* returns an empty list and changes nothing.
C23_ZeroDistanceStep ==
    [][total_distance_m(journey) = 0 =>
           IF is_done(journey) \/ elapsed' = 0
           THEN /\ positions' = << >>
                /\ journey' = journey
                /\ journey.legs = << >> => is_done(journey')
           ELSE /\ positions' = DestinationsAhead(journey)
                /\ is_done(journey')]_vars

\* a journey of legs of distance 0 after the call that finished it
C23_Witness ==
    /\ total_distance_m(journey) = 0
    /\ Len(journey.legs) > 1
    /\ elapsed > 0
    /\ is_done(journey)
    /\ positions = [i \in DOMAIN journey.legs |-> journey.legs[i].destination]

\* 0 <= f <= 1 for a fraction f with a positive denominator
InUnitInterval(f) ==
    /\ f.den > 0
    /\ 0 <= f.num
    /\ f.num <= f.den

\* C24: in every reachable state of a journey progress_percentage is in
\* [0, 1], it is 1 when the total distance is 0, and
\* estimated_time_remaining_s is at least 0.
C24_ProgressInRange ==
    /\ InUnitInterval(progress_percentage(journey))
    /\ total_distance_m(journey) = 0 =>
           progress_percentage(journey).num = progress_percentage(journey).den
    /\ estimated_time_remaining_s(journey).den > 0
    /\ estimated_time_remaining_s(journey).num >= 0

\* a journey inside its second leg: progress strictly between 0 and 1, and
\* time remaining
C24_Witness ==
    /\ journey.current_leg_index > 0
    /\ progress_percentage(journey).num > 0
    /\ progress_percentage(journey).num < progress_percentage(journey).den
    /\ estimated_time_remaining_s(journey).num > 0

\* C25: a call of Journey::advance consumes d = velocity * time step metres
\* across as many legs as d covers: distance_completed_m after the call is
\* the smaller of the total distance and the distance completed before the
\* call plus d, what is left after a finished leg being spent on the next.
C25_ConsumesDistance ==
    [][LET d == default_velocity_m_s(journey.transport) * elapsed'
       IN  distance_completed_m(journey') =
               Min2(total_distance_m(journey), distance_completed_m(journey) + d)]_vars

\* a call that finished a leg of positive distance and spent the rest of
\* its step inside the next leg
C25_Witness ==
    /\ Len(positions) >= 2
    /\ ~is_done(journey)
    /\ journey.current_leg_index > 0
    /\ journey.legs[journey.current_leg_index].distance_m > 0
    /\ journey.current_leg_progress > 0
    /\ positions[Len(positions)] =
           PointOnLeg(journey.current_leg_index + 1, journey.current_leg_progress)

\* the Journey a row of the journeys table stands for; the table writes
\* Transport::default() for every journey
JourneyOfRow(row) ==
    [transport |-> DefaultTransport,
     legs |-> row.journey_legs,
     current_leg_index |-> row.current_leg_index,
     current_leg_progress |-> row.current_leg_progress]

\* C26: PopulationHandler::advance_journeys leaves every active journey with
\* the current_leg_index, current_leg_progress and is_complete that
\* Journey::advance(time_step) produces from the same cursor and legs.
C26_TableMatchesJourney ==
    [][\A row \in journeys : ~row.is_complete =>
           LET j == advance(JourneyOfRow(row), TimeStep).journey
           IN  \E after \in journeys' :
                   /\ after.person_id = row.person_id
                   /\ after.current_leg_index = j.current_leg_index
                   /\ after.current_leg_progress = j.current_leg_progress
                   /\ after.is_complete = is_done(j)]_vars

\* every row of the journeys table is complete
TableComplete == \A row \in journeys : row.is_complete

\* C27: a journey of finitely many legs becomes complete after finitely many
\* advance calls with a positive time step: the Journey reaches is_done and
\* its row in the journeys table reaches is_complete.
C27_JourneysComplete == <>(is_done(journey) /\ TableComplete)

\* a journey of several legs, one of them longer than the distance of a
\* tick, done as a Journey and complete in the table
C27_Witness ==
    /\ Len(journey.legs) > 1
    /\ \E i \in DOMAIN journey.legs : journey.legs[i].distance_m > distance_to_travel
    /\ elapsed > 0
    /\ is_done(journey)
    /\ journeys # {}
    /\ pc = "advance_journeys"
    /\ TableComplete

\* C28: the handlers built from a snapshot have the orders, the order lines
\* (kitchen, current_step, assigned station, step_completion_time,
\* is_complete), the journeys and the population the handlers had when the
\* snapshot was written.
C28_SnapshotRoundTrip ==
    [][last' = "new" =>
           /\ orders' = orders
           /\ order_lines' = order_lines
           /\ journeys' = journeys
           /\ population' = population]_vars

\* C29: when a call inside a tick has failed, the tick has returned an error
\* and orders, order_lines, population and journeys are what they were when
\* the tick began.
C29_FailedTickLeavesWorld ==
    (pc = "failed" /\ before.calls = calls) => World = before.world

\* the number of OrderUpdated{Delivered} payloads for an order
DeliveredCount(payloads, o) ==
    Cardinality({k \in DOMAIN payloads :
                    /\ payloads[k].type = "order_updated"
                    /\ payloads[k].subject = o
                    /\ payloads[k].status = Delivered})

\* the legs of a journey in the opposite order
ReversedLegs(j) == [i \in DOMAIN j.legs |-> j.legs[Len(j.legs) + 1 - i]]

\* one tick of the status machine of courier p
CourierStep(p) ==
    LET s == lookup_index[p]
        t == lookup_index'[p]
        moved == advance(s.journey, TimeStep).journey
    IN  /\ s.flag = Delivering =>
               IF is_done(moved)
               THEN /\ t.flag = WaitingForCustomer
                    /\ t.order_id = s.order_id
                    /\ t.journey.legs = ReversedLegs(s.journey)
                    /\ t.journey.current_leg_index = 0
                    /\ t.journey.current_leg_progress = 0
               ELSE /\ t.flag = Delivering
                    /\ t.order_id = s.order_id
                    /\ t.journey = moved
        /\ s.flag = WaitingForCustomer =>
               LET customer == orders[s.order_id].customer_person_id
               IN  /\ DeliveredCount(emitted, s.order_id) = 0
                   /\ DeliveredCount(emitted', s.order_id) = 1
                   /\ lookup_index'[customer].flag = Eating
                   /\ lookup_index'[customer].until = now + EatingSeconds
                   /\ t.flag = Moving
                   /\ t.journey = s.journey
        /\ s.flag = Moving =>
               IF is_done(moved)
               THEN t.flag = Idle
               ELSE t.flag = Moving /\ t.journey = moved
        /\ s.flag \notin {Delivering, WaitingForCustomer, Moving} => t = s

\* C30: in update_journeys a Delivering courier whose journey completes
\* becomes WaitingForCustomer with the same order and the reversed journey
\* at cursor (0, 0); in the following tick it causes exactly one
\* OrderUpdated{Delivered} for its order, the customer of the order becomes
\* Eating until now + 30 min, and the courier becomes Moving on the reversed
\* journey, and Idle when that journey is done.
C30_CourierStatusMachine ==
    [][/\ \A p \in 1..MaxCouriers : CourierStep(p)
       /\ \A o \in DOMAIN orders : DeliveredCount(emitted', o) <= 1]_vars

\* a courier back Idle after a return trip of more than one tick, its order
\* delivered once and the customer eating
C30_Witness ==
    /\ lookup_index[1].flag = Idle
    /\ DeliveredCount(emitted, 1) = 1
    /\ lookup_index[MaxCouriers + 1].flag = Eating
    /\ \E k \in DOMAIN emitted :
           /\ emitted[k].type = "person_updated"
           /\ emitted[k].subject = 1
           /\ emitted[k].status.flag = Moving
           /\ Len(emitted[k].status.journey.legs) = 2
           /\ total_distance_m(emitted[k].status.journey) > distance_to_travel

\* ------------------------------------------------------------------------
\* KitchenHandler::step call by call: prepare_order_lines, the two halves of
\* process_order_lines (prepare_steps, then the advancing of the finished
\* steps) and update_order_status, each with the events it returns
\* ------------------------------------------------------------------------

\* EventsHelper::order_created over the orders of the batch
order_created_events(ord, new_orders) ==
    {[type |-> "order_created",
      timestamp |-> new_orders[o].submitted_at,
      order_id |-> o] : o \in DOMAIN new_orders \ DOMAIN ord}

\* the rows of lines_to_advance that pass the filter of step_finished_events
StepFinishedRows(ol, t) ==
    {l \in LinesToAdvance(ol, t) :
        ol[l].current_step > 1 /\ ol[l].current_step + 1 <= ol[l].total_steps}

\* step_finished_events: lines_to_advance joined with order_lines
step_finished_events(ol, t) ==
    {[type |-> "step_finished",
      timestamp |-> ol[l].step_completion_time,
      order_line_id |-> l,
      step_index |-> ol[l].current_step,
      station_id |-> ol[l].assigned_to] : l \in StepFinishedRows(ol, t)}

\* order_lines_ready_events: the lines whose next step is beyond the last
order_lines_ready_events(ol, t) ==
    {[type |-> "order_line_ready",
      timestamp |-> ol[l].step_completion_time,
      order_line_id |-> l,
      kitchen_id |-> ol[l].kitchen_id]
        : l \in {x \in LinesToAdvance(ol, t) : ol[x].current_step + 1 > ol[x].total_steps}}

\* order_ready_events of update_order_status
order_ready_events(ord, ol, t) ==
    {[type |-> "order_ready",
      timestamp |-> t,
      order_id |-> o,
      site_id |-> ord[o].site_id] : o \in CompletedOrders(ord, ol)}

\* no other call of the handler starts while process_order_lines runs
BetweenCalls == last # "prepare_steps"

PhasePrepareOrderLines ==
    /\ BetweenCalls
    /\ \E batch \in Batches :
         \E r \in prepare_order_lines(batch) :
           /\ orders' = r.orders
           /\ order_lines' = r.order_lines
           /\ returned' = order_created_events(orders, r.orders)
    /\ last' = "prepare_order_lines"
    /\ UNCHANGED << now, ready_events, loop, ordered >>
    /\ UNCHANGED << runner_vars, movement_vars, legacy_vars, before >>

\* process_order_lines up to the return of prepare_steps
PrepareSteps ==
    /\ BetweenCalls
    /\ DOMAIN order_lines # {}
    /\ \E r \in prepare_steps_loop(order_lines, now, 0, {}) :
         /\ order_lines' = r.order_lines
         /\ returned' = r.events
    /\ last' = "prepare_steps"
    /\ UNCHANGED << now, orders, ready_events, loop, ordered >>
    /\ UNCHANGED << runner_vars, movement_vars, legacy_vars, before >>

\* process_order_lines after prepare_steps
AdvanceSteps ==
    /\ last = "prepare_steps"
    /\ order_lines' = AdvanceLines(order_lines, now)
    /\ returned' = step_finished_events(order_lines, now)
                     \cup order_lines_ready_events(order_lines, now)
    /\ last' = "process_order_lines"
    /\ UNCHANGED << now, orders, ready_events, loop, ordered >>
    /\ UNCHANGED << runner_vars, movement_vars, legacy_vars, before >>

PhaseUpdateOrderStatus ==
    /\ BetweenCalls
    /\ orders' = update_order_status(orders, order_lines)
    /\ returned' = order_ready_events(orders, order_lines, now)
    /\ ready_events' =
         [o \in DOMAIN orders |->
            (IF o \in DOMAIN ready_events THEN ready_events[o] ELSE 0)
            + Cardinality({e \in order_ready_events(orders, order_lines, now) :
                             e.order_id = o})]
    /\ last' = "update_order_status"
    /\ UNCHANGED << now, order_lines, loop, ordered >>
    /\ UNCHANGED << runner_vars, movement_vars, legacy_vars, before >>

PhaseStepTime ==
    /\ BetweenCalls
    /\ StepTime

PhaseNext ==
    \/ PhasePrepareOrderLines
    \/ PrepareSteps
    \/ AdvanceSteps
    \/ PhaseUpdateOrderStatus
    \/ PhaseStepTime

PhaseSpec == Init /\ [][PhaseNext]_vars

\* ------------------------------------------------------------------------
\* Properties of the phases of process_order_lines
\* ------------------------------------------------------------------------

\* the queued lines Phase A gave a station
FreshlyBound ==
    {l \in DOMAIN order_lines :
        order_lines[l].assigned_to = NULL /\ order_lines'[l].assigned_to # NULL}

\* the candidate lines of the kitchen and the type of station s that have no
\* station when Phase A ends
LeftWaiting(s) ==
    {l \in ToUpdate(order_lines, now) :
        /\ order_lines[l].kitchen_id = StationKitchen(s)
        /\ RequiredStation(order_lines[l]) = StationType(s)
        /\ order_lines'[l].assigned_to = NULL}

\* C31: whenever Phase A binds a line to a station of type T in kitchen K, no
\* other candidate line of K that requires T and is still unbound when
\* Phase A ends has a strictly earlier submitted_at
C31_FirstComeFirstServed ==
    [][last' = "prepare_steps" =>
         \A l \in FreshlyBound :
             \A w \in LeftWaiting(order_lines'[l].assigned_to) :
                 order_lines[w].submitted_at >= order_lines[l].submitted_at]_vars

\* the stations no incomplete line refers to
IdleStations ==
    {s \in Stations :
        \A l \in DOMAIN order_lines :
            ~order_lines[l].is_complete => order_lines[l].assigned_to # s}

\* C32: when prepare_steps has returned, no incomplete line without a station
\* belongs to a kitchen that has a station of the type the line's current
\* step requires and that no incomplete line refers to
C32_WorkConserving ==
    last = "prepare_steps" =>
        \A l \in DOMAIN order_lines :
            (~order_lines[l].is_complete /\ order_lines[l].assigned_to = NULL) =>
                \A s \in IdleStations :
                    ~(/\ StationKitchen(s) = order_lines[l].kitchen_id
                      /\ StationType(s) = RequiredStation(order_lines[l]))

\* ------------------------------------------------------------------------
\* The loop of prepare_steps pass by pass, in a kitchen whose free stations
\* all have the type that its waiting lines require.  The lines belong to
\* orders submitted at one instant not after the tick time, and their recipe
\* step is never drawn a duration of 0, so a line that is bound is no
\* candidate in the rest of the call.  The loop reads the lines through
\* get_stats alone, so the kitchen is held as its counters.
\* ------------------------------------------------------------------------

\* the counters of get_stats that a pass can change
LoopStats(l) == [queued |-> l.queued, in_progress |-> l.in_progress]

\* assign_steps_to_stations: the numbers of lines one pass can bind.  Every
\* free station picks one of the waiting lines with the greatest
\* submitted_at, here any of them, and every picked line keeps one station.
BoundInPass(queued, idle) ==
    IF queued = 0 \/ idle = 0
    THEN {0}
    ELSE 1..Min2(queued, idle)

CapInit ==
    /\ KitchenInit
    /\ population = EmptyTable
    /\ journeys = {}
    /\ NoJourney
    /\ NoPeople
    /\ before = NoMark
    /\ picked_up_orders = None
    /\ incoming = << >>
    /\ events = {}
    /\ pc = "idle"
    /\ calls = 0
    /\ returned = {}
    /\ ready_events = EmptyTable
    /\ ordered = EmptyTable
    /\ loop \in {[NoLoop EXCEPT !.queued = q, !.idle = f] :
                   q \in 0..MaxQueued, f \in 0..MaxQueued}

\* the statements of prepare_steps before its loop
EnterPrepareSteps ==
    /\ ~loop.running
    /\ loop.passes = 0
    /\ loop' = [loop EXCEPT !.running = TRUE,
                            !.curr_stats = LoopStats(loop),
                            !.steps = 0]
    /\ UNCHANGED << returned, ready_events, ordered >>
    /\ UNCHANGED << kitchen_vars, runner_vars, movement_vars, legacy_vars, before >>

\* one turn of the loop of prepare_steps
LoopPass ==
    /\ loop.running
    /\ \E k \in BoundInPass(loop.queued, loop.idle) :
         LET after == [loop EXCEPT !.queued = @ - k,
                                   !.in_progress = @ + k,
                                   !.idle = @ - k,
                                   !.passes = @ + 1]
             new_stats == LoopStats(after)
         IN  loop' = IF new_stats = loop.curr_stats
                     THEN [after EXCEPT !.running = FALSE]
                     ELSE [after EXCEPT !.curr_stats = new_stats,
                                        !.steps = @ + 1,
                                        !.running = ~(loop.steps + 1 > MaxIterations)]
    /\ UNCHANGED << returned, ready_events, ordered >>
    /\ UNCHANGED << kitchen_vars, runner_vars, movement_vars, legacy_vars, before >>

CapNext ==
    \/ EnterPrepareSteps
    \/ LoopPass

CapSpec == CapInit /\ [][CapNext]_vars

\* C33: prepare_steps runs assign_steps_to_stations at most 10 times per call,
\* whatever the number of queued lines and free stations
C33_AtMostTenPasses == loop.passes <= MaxIterations

\* the OrderLineStepStarted events among evs that report line l on station s
\* at step i and time t
StartedReports(evs, l, s, i, t) ==
    {e \in evs :
        /\ e.type = "step_started"
        /\ e.order_line_id = l
        /\ e.station_id = s
        /\ e.step_index = i
        /\ e.timestamp = t}

\* C34: every binding of a line to a station that stands in order_lines when
\* prepare_steps returns is reported by exactly one OrderLineStepStarted
\* event (timestamp = now, step_index = the line's current_step, the bound
\* station) among the events prepare_steps returns
C34_BindingsReported ==
    [][last' = "prepare_steps" =>
         \A l \in StationUpdates(order_lines, order_lines') :
             Cardinality(StartedReports(returned', l, order_lines'[l].assigned_to,
                                        order_lines'[l].current_step, now)) = 1]_vars

\* the OrderLineStepFinished events among evs that report the step the row
\* of line l was at
FinishedReports(evs, l, row) ==
    {e \in evs :
        /\ e.type = "step_finished"
        /\ e.order_line_id = l
        /\ e.timestamp = row.step_completion_time
        /\ e.station_id = row.assigned_to
        /\ e.step_index = row.current_step}

\* C35: for every line that Phase B advances while current_step <
\* total_steps, whatever the step index from 1 upward, exactly one
\* OrderLineStepFinished event is emitted with the old step_completion_time,
\* the old assigned station and the old current_step
C35_FinishedStepsReported ==
    [][last' = "process_order_lines" =>
         \A l \in LinesToAdvance(order_lines, now) :
             order_lines[l].current_step < order_lines[l].total_steps =>
                 Cardinality(FinishedReports(returned', l, order_lines[l])) = 1]_vars

\* the order of an order line
OrderOfLine(l) == orders[order_lines[l].order_id]

\* C36: the timestamp of an OrderLineStepStarted event is not earlier than
\* the submitted_at of the order of the line
C36_StartedAfterSubmitted ==
    last = "prepare_steps" =>
        \A e \in returned :
            e.type = "step_started" =>
                e.timestamp >= OrderOfLine(e.order_line_id).submitted_at

\* ------------------------------------------------------------------------
\* Properties of the journeys table
\* ------------------------------------------------------------------------

\* the legs of a row that are not finished
LegsAhead(row) == Len(row.journey_legs) - row.current_leg_index

\* C37: one call of advance_journeys moves each active journey forward by at
\* most one leg, so a journey that has two or more legs ahead of it, as a
\* journey of two or more legs has when it starts, is still active
\* (is_complete = false) after the call
C37_OneLegPerCall ==
    [][\A row \in journeys : ~row.is_complete =>
           \E after \in journeys' :
               /\ after.person_id = row.person_id
               /\ after.current_leg_index >= row.current_leg_index
               /\ after.current_leg_index <= row.current_leg_index + 1
               /\ (LegsAhead(row) >= 2 => ~after.is_complete)]_vars

\* a journey of two legs after its first tick: the first leg is shorter than
\* the distance of the tick, the second has no length, and the row is at the
\* second leg and still active
C37_Witness ==
    /\ pc = "advance_journeys"
    /\ \E row \in journeys :
         /\ Len(row.journey_legs) = 2
         /\ row.journey_legs[1].distance_m < distance_to_travel
         /\ row.journey_legs[2].distance_m = 0
         /\ row.current_leg_index = 1
         /\ ~row.is_complete

\* ------------------------------------------------------------------------
\* Properties of the lines and orders over a run of handler calls
\* ------------------------------------------------------------------------

\* C38: over any sequence of handler calls a line stays in order_lines, its
\* current_step never decreases, its is_complete never returns from true to
\* false, and its kitchen_id never changes after the line is inserted
C38_LineProgressMonotone ==
    [][\A l \in DOMAIN order_lines :
           /\ l \in DOMAIN order_lines'
           /\ order_lines'[l].current_step >= order_lines[l].current_step
           /\ (order_lines[l].is_complete => order_lines'[l].is_complete)
           /\ order_lines'[l].kitchen_id = order_lines[l].kitchen_id]_vars

\* a line of two steps went through both and is complete, and a call of
\* prepare_order_lines has since inserted another line
C38_Witness ==
    /\ last = "prepare_order_lines"
    /\ \E l, n \in DOMAIN order_lines :
         /\ order_lines[l].is_complete
         /\ order_lines[l].total_steps = 2
         /\ order_lines[l].kitchen_id # NULL
         /\ l < n
         /\ order_lines[n].order_id # order_lines[l].order_id
         /\ ~order_lines[n].is_complete

\* C39: over any run at most one OrderReady event is emitted per order, and
\* the status of an order never returns from Ready to Submitted
C39_ReadyOnce ==
    [][/\ \A o \in DOMAIN ready_events' : ready_events'[o] <= 1
       /\ \A o \in DOMAIN orders :
              orders[o].status = Ready => orders'[o].status # Submitted]_vars

\* update_order_status is called again after the OrderReady event of an
\* order, in a later tick, and returns no event
C39_Witness ==
    /\ last = "update_order_status"
    /\ returned = {}
    /\ \E o \in DOMAIN orders :
         /\ orders[o].status = Ready
         /\ ready_events[o] = 1
         /\ now > orders[o].submitted_at

\* ---------------------------------------------------------------------
\* The runner with customers in the population: create_orders draws the
\* batch from the population table.

Customer == "customer"

\* people of either role, all idle, each standing in the tile of a site
OrderingPopulations ==
    [1..MaxCustomers -> [role : {Customer, Courier}, status : {Idle}, tile : Tiles]]

\* the rows the filter of create_orders keeps
IdleCustomers(pop) ==
    {p \in DOMAIN pop : pop[p].status = Idle /\ pop[p].role = Customer}

\* PopulationHandler::create_orders: one row per idle customer for whom the
\* create_order function returned items (it draws them at random and may
\* return null), submitted within the tick, delivered to the customer's
\* position; the rows come in any order and the population is left alone
create_orders(pop, t) ==
    UNION {{[i \in 1..Len(q) |->
                [person_id |-> q[i],
                 cell |-> pop[q[i]].tile,
                 submitted_at |-> at[q[i]],
                 items |-> [n \in 1..1 |-> 1]]]
              : q \in Perms(S), at \in [S -> t..(t + TimeStep)]}
           : S \in SUBSET IdleCustomers(pop)}

\* the create_orders call of SimulationRunner::step; the tables hold
\* MaxOrders orders and MaxLines lines
CreateCustomerOrders ==
    /\ \/ pc = "start_journeys"
       \/ pc = "assign_couriers" /\ ~picked_up_orders.some
    /\ incoming' \in {b \in create_orders(population, now) :
                        /\ Cardinality(DOMAIN orders) + Len(b) <= MaxOrders
                        /\ Cardinality(DOMAIN order_lines) + Len(b) <= MaxLines}
    /\ ordered' = [p \in DOMAIN ordered |->
                     ordered[p] + Cardinality({i \in 1..Len(incoming') :
                                                 incoming'[i].person_id = p})]
    /\ pc' = "create_orders"
    /\ UNCHANGED << population, journeys, picked_up_orders, events, calls >>
    /\ UNCHANGED << kitchen_vars, movement_vars, legacy_vars, before >>
    /\ UNCHANGED << returned, ready_events, loop >>

OrderingInit ==
    /\ KitchenInit
    /\ population \in OrderingPopulations
    /\ journeys = {}
    /\ NoJourney
    /\ NoPeople
    /\ before = NoMark
    /\ returned = {} /\ ready_events = EmptyTable /\ loop = NoLoop
    /\ ordered = [p \in 1..MaxCustomers |-> 0]
    /\ picked_up_orders = None
    /\ incoming = << >>
    /\ events = {}
    /\ pc = "idle"
    /\ calls = 0

OrderingNext ==
    \/ AdvanceJourneys
    \/ AssignCouriers
    \/ SetPersonStatus
    \/ PlanJourneys
    \/ StartJourneys
    \/ CreateCustomerOrders
    \/ KitchenStep
    \/ StepClock
    \/ SendEvents

OrderingSpec == OrderingInit /\ [][OrderingNext]_vars

\* C40: a customer has at most one order that is not yet delivered: once
\* create_orders has generated an order for a customer it generates no
\* further order for that customer while no order has been delivered
C40_OneOpenOrderPerCustomer ==
    \A p \in DOMAIN ordered :
        ordered[p] >= 2 => \E o \in DOMAIN orders : orders[o].status = Delivered


====
